---- MODULE Spec2Model ----
(***************************************************************************)
(* Account & fleet orchestration engine of robotter-backend-api.           *)
(*                                                                         *)
(* The model covers services/accounts_service.py (AccountsService: the     *)
(* account registry `accounts`, the snapshot `accounts_state`, the wallet  *)
(* custodian, the synchronization loop and the dump loop) and              *)
(* services/docker_service.py (DockerManager.create_hummingbot_instance).  *)
(*                                                                         *)
(* Several AccountsService objects live in one process (routers/bots.py,   *)
(* routers/instances.py and routers/market_data.py each construct one);    *)
(* they share the credentials directory on disk but not their in-memory    *)
(* dictionaries.  The model keeps two of them: "svc", the one whose        *)
(* background loops run, and "router".                                     *)
(*                                                                         *)
(* asyncio is cooperative: a coroutine runs atomically from one await to   *)
(* the next.  Every action below is one such atomic stretch.               *)
(***************************************************************************)
EXTENDS Integers, Sequences, FiniteSets, TLC

\* ---------------------------------------------------------------- bounds
MaxWallets == 2      \* number of keypairs SigningKey.generate() may hand out
LastInstant == 119   \* last instant at which a process may start, in half minutes
MaxInterval == 60    \* largest dump interval, in minutes
MaxTime == 14        \* last instant of the modelled wall clock, in half minutes
MaxLogs == 1         \* number of log messages a listener receives
MaxCommands == 2     \* number of commands published on the message bus
MaxOrphaned == 2     \* starts of the loops made while they run
Overflow == 2        \* logs of one class a listener receives beyond maxlen

\* ------------------------------------------------------ program constants
maxlen == 100        \* capacity of a listener's log buffers

\* ------------------------------------------------------------ value sets
Insts == {"svc", "router"}
Names == {"master_account", "acct1"}
Connectors == {"exA"}
Keys == Connectors \cup {"wallet"}
Tokens == {"SOL", "NAV", "USDC"}
TokenOrder == <<"SOL", "NAV", "USDC">>
Units == {0, 10}
\* the balances a connector reports: nothing, one token, several tokens
BalanceReports ==
  {r \in [Tokens -> Units] : r["USDC"] = r["SOL"]}
ZeroBalances == [t \in Tokens |-> 0]
Orders == {<<"master_account", "acct1">>, <<"acct1", "master_account">>}

\* config.BANNED_TOKENS (config.py is not part of the sources at hand)
BANNED_TOKENS == {"NAV"}

\* ------------------------------------------------------- dictionary helpers
EmptyMap == [x \in {} |-> 0]
Put(f, k, v) == [x \in (DOMAIN f) \cup {k} |-> IF x = k THEN v ELSE f[x]]
Pop(f, k) == [x \in (DOMAIN f) \ {k} |-> f[x]]

\* ------------------------------------------------------------------ state
VARIABLES
  disk,            \* [Names -> directory record] : bots/credentials/<account>
  nextWallet,      \* the next keypair SigningKey.generate() returns
  secret_file,     \* the key held by secret_key.txt
  vault,           \* [wallet -> text of solana/<wallet>.json]
  secret_key,      \* [Insts -> key] : AccountsService.secret_key
  accounts,        \* [Insts -> dict] : AccountsService.accounts
  accounts_state,  \* [Insts -> dict] : AccountsService.accounts_state
  event,           \* [Insts -> BOOLEAN] : account_state_update_event
  loopPc,          \* position of update_account_state_loop of "svc"
  upd,             \* locals of the running update_account_state coroutines
  keysPc,          \* position of the add_connector_keys call in flight
  dumpPc,          \* position of dump_account_state_loop of "svc"
  wakeAt,          \* instant at which the dump loop's sleep ends
  now,             \* wall clock, in half minutes since the full hour
  interval,        \* account_history_dump_interval, in minutes
  history,         \* the last line of data/<history_file> (<<>>: no file)
  firstSync,       \* instant at which the event was first set (0: not yet)
  orphaned,        \* live pairs of loop tasks whose handles were overwritten
  instances,       \* bots/instances/<worker> directories
  containers,      \* names of the containers known to the runtime
  reachable,       \* whether the container runtime answers
  client,          \* DockerManager.client: "none" (no object), "unset", "set"
  manager,         \* BotsManager: "none" (no object), "ok", "failed"
  status,          \* [ContainerNames -> status the runtime reports]
  active_bots,     \* BotsManager.active_bots
  bus,             \* commands published on the message bus
  gateway,         \* requests issued to the gateway
  unreferenced,    \* listeners deleted from active_bots: [bot_id, started]
  request,         \* the BacktestingConfig a backtesting caller holds
  cache,           \* StrategyRegistry._cache
  ret              \* outcome of the last call made by a caller

diskVars == <<disk, nextWallet, secret_file, vault>>
memVars == <<accounts, accounts_state, event, secret_key>>
taskVars == <<loopPc, upd, keysPc>>
dumpVars == <<dumpPc, wakeAt, history, firstSync>>
timeVars == <<now, interval>>
dockerVars == <<instances, containers>>
backtestVars == <<request, cache>>
botVars == <<reachable, client, manager, status, active_bots, bus, gateway>>
vars == <<disk, nextWallet, secret_file, vault, secret_key, accounts, accounts_state, event, loopPc, upd,
          keysPc, dumpPc, wakeAt, now, interval, history, firstSync, orphaned,
          instances, containers, reachable, client, manager, status,
          active_bots, bus, gateway, unreferenced, request, cache, ret>>

\* ------------------------------------------------------------- the disk
NoInfo == [kind |-> "absent", wallet |-> 0]
NoDir == [dir |-> FALSE, connDir |-> FALSE, tmpl |-> FALSE, creds |-> {},
          info |-> NoInfo, keys |-> {}]
MasterDir == [dir |-> TRUE, connDir |-> TRUE, tmpl |-> TRUE, creds |-> {},
              info |-> NoInfo, keys |-> {}]

\* utils/file_system.py (FileSystemUtil) is not part of the sources at hand;
\* its operations are the usual os/shutil ones under the base path "bots".
path_exists(d, n) == d[n].dir
create_folder(d, n) == [d EXCEPT ![n].dir = TRUE]
create_connectors_folder(d, n) == [d EXCEPT ![n].connDir = TRUE]
can_copy_file(d, n) ==
  n # "master_account" /\ d["master_account"].dir /\ d["master_account"].tmpl
copy_file(d, n) == [d EXCEPT ![n].tmpl = TRUE]
delete_folder(d, n) == [d EXCEPT ![n] = NoDir]
delete_file(d, n, c) == [d EXCEPT ![n].creds = @ \ {c}]
list_folders(d) == {n \in Names : d[n].dir}

\* ----------------------------------------------------------- the registry
\* An entry of `accounts` is a dict holding connector objects under their
\* names and, once add_account or generate_bot_wallet touched it, the key
\* "wallet" (wallet = 0 stands for None).  A connector object is
\* represented by the balances it last fetched.
Entry(wkey, wallet, conns) == [wkey |-> wkey, wallet |-> wallet, conns |-> conns]
EntryKeys(e) == (DOMAIN e.conns) \cup (IF e.wkey THEN {"wallet"} ELSE {})
NewConnector == ZeroBalances

Ret(op, out, val) == [op |-> op, out |-> out, val |-> val]

list_accounts == list_folders(disk)


\* ------------------------------------------------------------ encryption
\* Texts and byte strings are numbers below Modulus, wrapped by the
\* conversion that produced them.
Modulus == 8
SecretKeys == {1, 2}
Nonces == {0, 1}
Plaintexts == 0..(Modulus - 1)

\* AccountsService._load_or_generate_secret_key, for an existing file
load_secret_key(file) == file
\* secret_key.txt does not exist / the object has not reached line 55
NoKey == 0
\* _load_or_generate_secret_key without its test of the file
generate_secret_key_always(file, random) == [key |-> random, file |-> random]
\* _load_or_generate_secret_key: the key the object holds and the file it
\* leaves, `random` being the key random(KEY_SIZE) would draw
load_or_generate_secret_key(file, random) ==
  IF file # NoKey
  THEN [key |-> load_secret_key(file), file |-> file]
  ELSE [key |-> random, file |-> random]

\* str.encode() / bytes.decode()
str_encode(text) == [bytes |-> text]
bytes_decode(b) == b.bytes
\* base64.b64encode / base64.b64decode
b64encode(b) == [bytes |-> [b64 |-> b.bytes]]
b64decode(text) == [bytes |-> text.b64]
\* json.dump / json.load of a text
json_dump(text) == [json |-> text]
json_load(file) == file.json

\* nacl.secret.SecretBox: encrypt with a random nonce, decrypt with the
\* check of the authenticator
Authenticator(key, nonce, body) == (3 * key + nonce + 5 * body) % Modulus
box_encrypt(key, b, nonce) ==
  LET body == (b.bytes + key + nonce) % Modulus
  IN [bytes |-> [nonce |-> nonce, body |-> body,
                 mac |-> Authenticator(key, nonce, body)]]
box_decrypt(key, b) ==
  LET c == b.bytes
  IN IF c.mac # Authenticator(key, c.nonce, c.body)
     THEN [ok |-> FALSE, bytes |-> 0]
     ELSE [ok |-> TRUE, bytes |-> (c.body + 2 * Modulus - key - c.nonce) % Modulus]

\* AccountsService._encrypt_private_key
encrypt_private_key(key, private_key, nonce) ==
  bytes_decode(b64encode(box_encrypt(key, str_encode(private_key), nonce)))

\* AccountsService._decrypt_private_key
decrypt_without_nonce(key, encrypted_private_key) ==
  LET c == b64decode(encrypted_private_key).bytes
  IN [ok |-> TRUE, text |-> (c.body + 2 * Modulus - key) % Modulus]
decrypt_private_key(key, encrypted_private_key) ==
  LET decrypted == box_decrypt(key, b64decode(encrypted_private_key))
  IN [ok |-> decrypted.ok,
      text |-> IF decrypted.ok THEN bytes_decode(decrypted) ELSE 0]

\* generate_bot_wallet, line 395: the hex text of the signing key of the
\* keypair whose address is w
private_key_of(w) == (5 * w) % Modulus
\* the nonce SecretBox.encrypt draws for that key: like the keypairs, the
\* random values are numbered in the order they are drawn
random_nonce(w) == w % Cardinality(Nonces)

\* ----------------------------------------------------- account lifecycle
\* AccountsService.initialize_accounts, for one service object: every folder
\* of the credentials directory becomes an entry without a "wallet" key; a
\* connector is registered for every credential file whose connector could be
\* constructed (ok: the credential files for which get_connector succeeds).
initialize_accounts(d, ok) ==
  [n \in list_folders(d) |->
     Entry(FALSE, 0, [c \in (d[n].creds \cap ok[n]) |-> NewConnector])]

\* list_credentials raises (HTTP 404) for a folder without connectors/.
list_credentials_fails(d, n) == ~d[n].connDir

\* add_account without its check of the registry
AddAccountUnchecked(i, n) ==
  /\ UNCHANGED <<nextWallet, secret_file, vault, event, secret_key, taskVars, dumpVars, timeVars, dockerVars, backtestVars, unreferenced, orphaned, botVars>>
  /\ LET d1 == create_connectors_folder(create_folder(disk, n), n)
     IN IF can_copy_file(d1, n)
        THEN /\ disk' = copy_file(d1, n)
             /\ accounts' = [accounts EXCEPT ![i] = Put(@, n, Entry(TRUE, 0, EmptyMap))]
             /\ accounts_state' = [accounts_state EXCEPT ![i] = Put(@, n, EmptyMap)]
             /\ ret' = Ret("add_account", "ok", 0)
        ELSE /\ disk' = d1
             /\ ret' = Ret("add_account", "FileNotFoundError", 0)
             /\ UNCHANGED <<accounts, accounts_state>>

\* AccountsService.add_account
AddAccount(i, n) ==
  /\ UNCHANGED <<nextWallet, secret_file, vault, event, secret_key, taskVars, dumpVars, timeVars, dockerVars, backtestVars, unreferenced, orphaned, botVars>>
  /\ IF n \in DOMAIN accounts[i]
     THEN /\ ret' = Ret("add_account", "AlreadyExists", 0)
          /\ UNCHANGED <<disk, accounts, accounts_state>>
     ELSE LET d1 == create_connectors_folder(create_folder(disk, n), n)
          IN IF can_copy_file(d1, n)
             THEN /\ disk' = copy_file(d1, n)
                  /\ accounts' = [accounts EXCEPT ![i] = Put(@, n, Entry(TRUE, 0, EmptyMap))]
                  /\ accounts_state' = [accounts_state EXCEPT ![i] = Put(@, n, EmptyMap)]
                  /\ ret' = Ret("add_account", "ok", 0)
             ELSE /\ disk' = d1
                  /\ ret' = Ret("add_account", "FileNotFoundError", 0)
                  /\ UNCHANGED <<accounts, accounts_state>>

\* delete_account with its two pops in the other order
DeleteAccountStateFirst(i, n) ==
  /\ UNCHANGED <<nextWallet, secret_file, vault, event, secret_key, taskVars, dumpVars, timeVars, dockerVars, backtestVars, unreferenced, orphaned, botVars>>
  /\ IF ~path_exists(disk, n)
     THEN /\ ret' = Ret("delete_account", "FileNotFoundError", 0)
          /\ UNCHANGED <<disk, accounts, accounts_state>>
     ELSE /\ disk' = delete_folder(disk, n)
          /\ IF n \notin DOMAIN accounts_state[i]
             THEN /\ ret' = Ret("delete_account", "KeyError", 0)
                  /\ UNCHANGED <<accounts, accounts_state>>
             ELSE /\ accounts_state' = [accounts_state EXCEPT ![i] = Pop(@, n)]
                  /\ IF n \notin DOMAIN accounts[i]
                     THEN /\ ret' = Ret("delete_account", "KeyError", 0)
                          /\ UNCHANGED accounts
                     ELSE /\ accounts' = [accounts EXCEPT ![i] = Pop(@, n)]
                          /\ ret' = Ret("delete_account", "ok", 0)

\* AccountsService.delete_account
DeleteAccount(i, n) ==
  /\ UNCHANGED <<nextWallet, secret_file, vault, event, secret_key, taskVars, dumpVars, timeVars, dockerVars, backtestVars, unreferenced, orphaned, botVars>>
  /\ IF ~path_exists(disk, n)
     THEN /\ ret' = Ret("delete_account", "FileNotFoundError", 0)
          /\ UNCHANGED <<disk, accounts, accounts_state>>
     ELSE /\ disk' = delete_folder(disk, n)
          /\ IF n \notin DOMAIN accounts[i]
             THEN /\ ret' = Ret("delete_account", "KeyError", 0)
                  /\ UNCHANGED <<accounts, accounts_state>>
             ELSE /\ accounts' = [accounts EXCEPT ![i] = Pop(@, n)]
                  /\ IF n \notin DOMAIN accounts_state[i]
                     THEN /\ ret' = Ret("delete_account", "KeyError", 0)
                          /\ UNCHANGED accounts_state
                     ELSE /\ accounts_state' = [accounts_state EXCEPT ![i] = Pop(@, n)]
                          /\ ret' = Ret("delete_account", "ok", 0)

\* AccountsService._save_private_key: os.makedirs(..., exist_ok=True) of the
\* account folder and of its solana/ folder, then the key file.
save_private_key(d, n, w) == [d EXCEPT ![n].dir = TRUE, ![n].keys = @ \cup {w}]

\* AccountsService._save_account_info: json.dump of the account's dict.  A
\* dict that holds a connector object is not serializable: json.dump raises
\* after open(path, "w") truncated the file and part of the text was written.
save_account_info(d, n, e) ==
  [d EXCEPT ![n].info = IF DOMAIN e.conns = {}
                        THEN [kind |-> "valid", wallet |-> e.wallet]
                        ELSE [kind |-> "corrupt", wallet |-> 0]]

\* AccountsService.generate_bot_wallet (with _save_private_key,
\* _add_wallet_to_account and _save_account_info)
GenerateBotWallet(i, n) ==
  /\ nextWallet <= MaxWallets
  /\ UNCHANGED <<secret_file, accounts_state, event, secret_key, taskVars, dumpVars,
                 timeVars, dockerVars, backtestVars, unreferenced, orphaned, botVars>>
  /\ nextWallet' = nextWallet + 1
  /\ vault' = Put(vault, nextWallet,
                  json_dump(encrypt_private_key(secret_key[i],
                                                private_key_of(nextWallet),
                                                random_nonce(nextWallet))))
  /\ LET w == nextWallet
         d1 == save_private_key(disk, n, w)
     IN IF n \notin DOMAIN accounts[i]
        THEN /\ disk' = d1
             /\ ret' = Ret("generate_bot_wallet", "ValueError", 0)
             /\ UNCHANGED accounts
        ELSE LET e == [accounts[i][n] EXCEPT !.wkey = TRUE, !.wallet = w]
             IN /\ accounts' = [accounts EXCEPT ![i][n] = e]
                /\ disk' = save_account_info(d1, n, e)
                /\ ret' = IF DOMAIN e.conns = {}
                          THEN Ret("generate_bot_wallet", "ok", w)
                          ELSE Ret("generate_bot_wallet", "TypeError", 0)

\* AccountsService.get_bot_wallet_private_key
GetBotWalletPrivateKey(i, n, w) ==
  /\ UNCHANGED <<diskVars, memVars, taskVars, dumpVars, timeVars, dockerVars, backtestVars, unreferenced, orphaned, botVars>>
  /\ IF w \notin disk[n].keys
     THEN ret' = Ret("get_bot_wallet_private_key", "FileNotFoundError", 0)
     ELSE LET decrypted == decrypt_private_key(secret_key[i], json_load(vault[w]))
          IN ret' = IF decrypted.ok
                    THEN Ret("get_bot_wallet_private_key", "ok", decrypted.text)
                    ELSE Ret("get_bot_wallet_private_key", "CryptoError", 0)

\* AccountsService.get_bot_wallet_address
GetBotWalletAddress(i, n) ==
  /\ UNCHANGED <<diskVars, accounts_state, event, secret_key, taskVars, dumpVars, timeVars, dockerVars, backtestVars, unreferenced, orphaned, botVars>>
  /\ IF n \in DOMAIN accounts[i] /\ ~accounts[i][n].wkey
     THEN \* self.accounts[account_name]["wallet"] on a dict without that key
          /\ ret' = Ret("get_bot_wallet_address", "KeyError", 0)
          /\ UNCHANGED accounts
     ELSE IF n \in DOMAIN accounts[i] /\ accounts[i][n].wallet # 0
     THEN /\ ret' = Ret("get_bot_wallet_address", "ok", accounts[i][n].wallet)
          /\ UNCHANGED accounts
     ELSE IF disk[n].info.kind = "absent"
     THEN /\ ret' = Ret("get_bot_wallet_address", "WalletNotFound", 0)
          /\ UNCHANGED accounts
     ELSE IF disk[n].info.kind = "corrupt"
     THEN /\ ret' = Ret("get_bot_wallet_address", "JSONDecodeError", 0)
          /\ UNCHANGED accounts
     ELSE /\ accounts' = [accounts EXCEPT ![i] =
                            Put(@, n, Entry(TRUE, disk[n].info.wallet, EmptyMap))]
          /\ ret' = Ret("get_bot_wallet_address", "ok", disk[n].info.wallet)

\* AccountsService.delete_credentials
DeleteCredentials(i, n, c) ==
  /\ UNCHANGED <<nextWallet, secret_file, vault, event, secret_key, taskVars, dumpVars, timeVars, dockerVars, backtestVars, unreferenced, orphaned, botVars>>
  /\ IF ~(c \in disk[n].creds)
     THEN /\ ret' = Ret("delete_credentials", "ok", 0)
          /\ UNCHANGED <<disk, accounts, accounts_state>>
     ELSE /\ disk' = delete_file(disk, n, c)
          /\ IF n \notin DOMAIN accounts[i]
             THEN /\ ret' = Ret("delete_credentials", "KeyError", 0)
                  /\ UNCHANGED <<accounts, accounts_state>>
             ELSE /\ accounts' = [accounts EXCEPT ![i][n].conns = Pop(@, c)]
                  /\ IF n \notin DOMAIN accounts_state[i]
                     THEN /\ ret' = Ret("delete_credentials", "KeyError", 0)
                          /\ UNCHANGED accounts_state
                     ELSE /\ accounts_state' = [accounts_state EXCEPT ![i][n] = Pop(@, c)]
                          /\ ret' = Ret("delete_credentials", "ok", 0)

\* ------------------------------------------------ snapshot recomputation
NameOrder == <<"master_account", "acct1">>
KeyOrder == <<"wallet", "exA">>
First(order, S) ==
  order[CHOOSE k \in 1..Len(order) :
          order[k] \in S /\ \A j \in 1..(k - 1) : order[j] \notin S]

default_quote == "USDC"
get_default_market(token) == <<token, default_quote>>
ContainsUSD(token) == token \in {"USDC", "USDT"}
LastTradedPrice == [t \in Tokens |-> 20]

\* update_account_state, lines 247-248: the non-zero, non-denylisted balances
\* of a connector, in the order of the connector's balance dict.
KeepNonZero(conn, token) == conn[token] # 0
Keep(conn, token) == conn[token] # 0 /\ token \notin BANNED_TOKENS
RECURSIVE balances_from(_, _)
balances_from(conn, k) ==
  IF k > Len(TokenOrder) THEN <<>>
  ELSE (IF Keep(conn, TokenOrder[k])
        THEN <<[token |-> TokenOrder[k], units |-> conn[TokenOrder[k]]]>>
        ELSE <<>>) \o balances_from(conn, k + 1)
balances_of(conn) == balances_from(conn, 1)

\* lines 249-250: the markets whose price is looked up
trading_pairs(balances) ==
  {get_default_market(balances[k].token) :
     k \in {j \in 1..Len(balances) : ~ContainsUSD(balances[j].token)}}

\* _safe_get_last_traded_prices: the exchange's answer, or a zero price for
\* every pair after a timeout or an error.
safe_get_last_traded_prices(pairs, answered) ==
  [m \in pairs |-> IF answered THEN LastTradedPrice[m[1]] ELSE 0]

\* lines 252-265: one BalanceEntry per balance
price_by_lookup_only(token, prices) ==
  IF get_default_market(token) \in DOMAIN prices
  THEN prices[get_default_market(token)] ELSE 0
PriceOf(token, prices) ==
  IF ContainsUSD(token) THEN 1
  ELSE IF get_default_market(token) \in DOMAIN prices
       THEN prices[get_default_market(token)] ELSE 0
tokens_info_first_only(balances, prices) ==
  [k \in 1..(IF Len(balances) > 1 THEN 1 ELSE Len(balances)) |->
     [token |-> balances[k].token,
      units |-> balances[k].units,
      price |-> PriceOf(balances[k].token, prices),
      value |-> PriceOf(balances[k].token, prices) * balances[k].units]]
tokens_info(balances, prices) ==
  [k \in 1..Len(balances) |->
     [token |-> balances[k].token,
      units |-> balances[k].units,
      price |-> PriceOf(balances[k].token, prices),
      value |-> PriceOf(balances[k].token, prices) * balances[k].units]]

\* Locals of one update_account_state coroutine.  `visited`/`nAccts` stand
\* for the iterator over self.accounts.items(), `kvisited`/`nKeys` for the
\* one over connectors.items(): a dict iterator raises RuntimeError when the
\* dict changed size since the iteration began.  `targets` are the connectors
\* a gather runs over, `logged` those whose refresh raised in it (line 225),
\* `done` those whose coroutine has ended while the gather is still awaited.
IdleUpd == [visited |-> {}, nAccts |-> 0, cur |-> "master_account",
            kvisited |-> {}, nKeys |-> 0, key |-> "wallet",
            balances |-> <<>>, targets |-> {}, logged |-> {}, done |-> {}]
Outcome(st, L, out) == [st |-> st, L |-> L, out |-> out]

LiveKeys(acc, n) == IF n \in DOMAIN acc THEN EntryKeys(acc[n]) ELSE {}

\* The stretch of update_account_state that runs without suspending: from
\* the head of the inner (InnerNext) or outer (OuterNext) loop to the next
\* price lookup ("await"), the end ("done") or an exception.  The value
\* stored under "wallet" is None or a string: get_all_balances raises
\* AttributeError, which line 267 catches, and line 270 stores [].
RECURSIVE InnerNext(_, _, _), OuterNext(_, _, _)
InnerNext(acc, st, L) ==
  LET keys == LiveKeys(acc, L.cur)
      rem == keys \ L.kvisited
      k == First(KeyOrder, rem)
  IN IF Cardinality(keys) # L.nKeys THEN Outcome(st, IdleUpd, "RuntimeError")
     ELSE IF rem = {} THEN OuterNext(acc, st, L)
     ELSE IF k = "wallet"
     THEN InnerNext(acc, [st EXCEPT ![L.cur] = Put(@, "wallet", <<>>)],
                    [L EXCEPT !.kvisited = @ \cup {k}])
     ELSE Outcome(st, [L EXCEPT !.kvisited = @ \cup {k}, !.key = k,
                                !.balances = balances_of(acc[L.cur].conns[k])],
                  "await")

OuterNext(acc, st, L) ==
  LET rem == (DOMAIN acc) \ L.visited
      a == First(NameOrder, rem)
  IN IF Cardinality(DOMAIN acc) # L.nAccts THEN Outcome(st, IdleUpd, "RuntimeError")
     ELSE IF rem = {} THEN Outcome(st, IdleUpd, "done")
     ELSE InnerNext(acc,
                    IF a \in DOMAIN st THEN st ELSE Put(st, a, EmptyMap),
                    [L EXCEPT !.visited = @ \cup {a}, !.cur = a,
                              !.kvisited = {}, !.key = "wallet", !.balances = <<>>,
                              !.nKeys = Cardinality(EntryKeys(acc[a]))])

\* update_account_state from its first line to its first suspension
update_account_state(acc, st) ==
  OuterNext(acc, st, [IdleUpd EXCEPT !.nAccts = Cardinality(DOMAIN acc)])

\* update_account_state from the return of the price lookup (line 251) on:
\* the entries are assembled, the event is set, line 270 stores the list
\* (KeyError when the account left accounts_state meanwhile), and the loops
\* go on.
resume_unguarded_lookup(acc, st, L, answered) ==
  LET info == IF answered
              THEN tokens_info(L.balances,
                               safe_get_last_traded_prices(trading_pairs(L.balances), TRUE))
              ELSE <<>>
  IN IF L.cur \notin DOMAIN st THEN Outcome(st, IdleUpd, "KeyError")
     ELSE InnerNext(acc, [st EXCEPT ![L.cur] = Put(@, L.key, info)], L)
resume_account_state(acc, st, L, answered) ==
  LET info == tokens_info(L.balances,
                          safe_get_last_traded_prices(trading_pairs(L.balances), answered))
  IN IF L.cur \notin DOMAIN st THEN Outcome(st, IdleUpd, "KeyError")
     ELSE InnerNext(acc, [st EXCEPT ![L.cur] = Put(@, L.key, info)], L)

\* --------------------------------------------------- connector discovery
\* check_all_connectors: the accounts are visited in the order list_folders
\* returns them; an account whose connectors/ folder is missing makes
\* list_credentials raise, which ends the pass.  initialize_connector creates
\* the registry entry before it tries to construct the connector.
RECURSIVE check_from(_, _, _, _, _)
check_from(order, k, d, acc, ok) ==
  IF k > Len(order) THEN [acc |-> acc, out |-> "ok"]
  ELSE LET n == order[k]
           base == IF n \in DOMAIN acc THEN acc[n] ELSE Entry(FALSE, 0, EmptyMap)
           missing == d[n].creds \ DOMAIN base.conns
           e == [base EXCEPT !.conns =
                   [c \in (DOMAIN base.conns) \cup (missing \cap ok[n]) |->
                      IF c \in DOMAIN base.conns THEN base.conns[c] ELSE NewConnector]]
       IN IF ~d[n].dir THEN check_from(order, k + 1, d, acc, ok)
          ELSE IF list_credentials_fails(d, n)
          THEN [acc |-> acc, out |-> "HTTPException"]
          ELSE check_from(order, k + 1, d,
                          IF missing = {} THEN acc ELSE Put(acc, n, e), ok)
check_all_connectors(order, d, acc, ok) == check_from(order, 1, d, acc, ok)

\* the connector objects update_balances / update_trading_rules gather over
ConnectorsOf(acc) == {<<n, c>> \in Names \X Connectors :
                        n \in DOMAIN acc /\ c \in DOMAIN acc[n].conns}

\* the effect of the gathered _safe_update_balances calls: every connector
\* that is still registered and whose call succeeded holds the reported
\* balances; the others keep theirs.
refresh_all_or_nothing(acc, targets, okT, rep) ==
  [n \in DOMAIN acc |->
     [acc[n] EXCEPT !.conns =
        [c \in DOMAIN acc[n].conns |->
           IF <<n, c>> \in targets /\ okT = targets
           THEN rep[<<n, c>>] ELSE acc[n].conns[c]]]]
refresh_balances(acc, targets, okT, rep) ==
  [n \in DOMAIN acc |->
     [acc[n] EXCEPT !.conns =
        [c \in DOMAIN acc[n].conns |->
           IF <<n, c>> \in targets \cap okT THEN rep[<<n, c>>] ELSE acc[n].conns[c]]]]

\* ------------------------------------------------------ background loops
IdleKeys == [pc |-> "idle", n |-> "master_account", c |-> "exA"]

\* start_update_account_state_loop (called once per process run)
StartLoops ==
  /\ loopPc = "off" /\ dumpPc = "off"
  /\ loopPc' = "start" /\ dumpPc' = "wait"
  /\ ret' = Ret("start_update_account_state_loop", "ok", 0)
  /\ UNCHANGED <<diskVars, memVars, upd, keysPc, wakeAt, history, firstSync,
                 timeVars, dockerVars, backtestVars, unreferenced, orphaned, botVars>>

\* start_update_account_state_loop called while the tasks of an earlier
\* start are live: lines 79-80 create two more tasks and overwrite the two
\* handles; the earlier tasks stay scheduled and nothing refers to them.
StartLoopsAgain ==
  /\ loopPc # "off" /\ dumpPc # "off"
  /\ orphaned < MaxOrphaned
  /\ orphaned' = orphaned + 1
  /\ loopPc' = "start" /\ dumpPc' = "wait"
  /\ upd' = [upd EXCEPT !["loop"] = IdleUpd]
  /\ wakeAt' = 0
  /\ ret' = Ret("start_update_account_state_loop", "ok", 0)
  /\ UNCHANGED <<diskVars, memVars, keysPc, history, firstSync, timeVars, dockerVars,
                 backtestVars, unreferenced, botVars>>

\* stop_update_account_state_loop: both tasks are cancelled where they wait
StopLoops ==
  /\ loopPc # "off" \/ dumpPc # "off"
  /\ loopPc' = "off" /\ dumpPc' = "off"
  /\ upd' = [upd EXCEPT !["loop"] = IdleUpd]
  /\ wakeAt' = 0
  /\ ret' = Ret("stop_update_account_state_loop", "ok", 0)
  /\ UNCHANGED <<diskVars, memVars, keysPc, history, firstSync, timeVars, dockerVars, backtestVars, unreferenced, orphaned, botVars>>

\* update_account_state_loop, from the end of the sleep to the gather of
\* update_balances: check_all_connectors runs without suspending.
LoopStartCycleWith(order, ok) ==
  /\ loopPc \in {"start", "sleep"}
  /\ LET r == check_all_connectors(order, disk, accounts["svc"], ok)
     IN /\ accounts' = [accounts EXCEPT !["svc"] = r.acc]
        /\ IF r.out = "ok"
           THEN /\ loopPc' = "balances"
                /\ upd' = [upd EXCEPT !["loop"] =
                             [IdleUpd EXCEPT !.targets = ConnectorsOf(r.acc)]]
           ELSE /\ loopPc' = "sleep"
                /\ upd' = [upd EXCEPT !["loop"] = IdleUpd]
  /\ UNCHANGED <<diskVars, accounts_state, event, secret_key, keysPc, dumpVars, timeVars,
                 dockerVars, backtestVars, unreferenced, orphaned, botVars, ret>>

\* the gather of update_balances returns; update_trading_rules gathers
LoopBalancesDoneWith(okT, rep) ==
  /\ loopPc = "balances"
  /\ accounts' = [accounts EXCEPT !["svc"] =
                    refresh_balances(@, upd["loop"].targets, okT, rep)]
  /\ loopPc' = "rules"
  /\ upd' = [upd EXCEPT !["loop"].targets = ConnectorsOf(accounts'["svc"]),
                        !["loop"].logged = upd["loop"].targets \ okT]
  /\ UNCHANGED <<diskVars, accounts_state, event, secret_key, keysPc, dumpVars, timeVars,
                 dockerVars, backtestVars, unreferenced, orphaned, botVars, ret>>

\* what a finished or suspended update_account_state leaves behind
SetEvent ==
  /\ event' = [event EXCEPT !["svc"] = TRUE]
  /\ firstSync' = IF event["svc"] THEN firstSync ELSE now

\* the gather of update_trading_rules returns; update_account_state begins
LoopRulesDone ==
  /\ loopPc = "rules"
  /\ LET r == update_account_state(accounts["svc"], accounts_state["svc"])
     IN /\ accounts_state' = [accounts_state EXCEPT !["svc"] = r.st]
        /\ upd' = [upd EXCEPT !["loop"] = r.L]
        /\ loopPc' = IF r.out = "await" THEN "state" ELSE "sleep"
  /\ UNCHANGED <<diskVars, accounts, event, secret_key, keysPc, dumpVars, timeVars,
                 dockerVars, backtestVars, unreferenced, orphaned, botVars, ret>>

\* the price lookup of the loop's update_account_state returns
LoopResumeWith(answered) ==
  /\ loopPc = "state"
  /\ LET r == resume_account_state(accounts["svc"], accounts_state["svc"],
                                   upd["loop"], answered)
     IN /\ accounts_state' = [accounts_state EXCEPT !["svc"] = r.st]
        /\ upd' = [upd EXCEPT !["loop"] = r.L]
        /\ loopPc' = IF r.out = "await" THEN "state" ELSE "sleep"
  /\ SetEvent
  /\ UNCHANGED <<diskVars, accounts, secret_key, keysPc, dumpPc, wakeAt, history,
                 timeVars, dockerVars, backtestVars, unreferenced, orphaned, botVars, ret>>

LoopResume == \E answered \in BOOLEAN : LoopResumeWith(answered)

LoopStartCycle ==
  \E order \in Orders, ok \in [Names -> SUBSET Connectors] :
    LoopStartCycleWith(order, ok)

LoopBalancesDone ==
  \E okT \in SUBSET upd["loop"].targets,
     rep \in [upd["loop"].targets -> BalanceReports] :
    LoopBalancesDoneWith(okT, rep)

\* ---------------------------------------- the gathers, one coroutine a step
\* _safe_update_balances for the connector t ends: the connector holds the
\* reported balances, or the call raised and line 225 logged it.
safe_update_balances(t, ok, rep) ==
  /\ loopPc = "balances"
  /\ t \in upd["loop"].targets \ upd["loop"].done
  /\ accounts' = [accounts EXCEPT !["svc"] =
                    refresh_balances(@, {t}, IF ok THEN {t} ELSE {}, [x \in {t} |-> rep])]
  /\ upd' = [upd EXCEPT !["loop"].done = @ \cup {t},
                        !["loop"].logged = IF ok THEN @ ELSE @ \cup {t}]
  /\ UNCHANGED <<diskVars, accounts_state, event, secret_key, loopPc, keysPc, dumpVars,
                 timeVars, dockerVars, backtestVars, unreferenced, orphaned, botVars, ret>>

\* asyncio.gather of update_balances (line 219) returns once every coroutine
\* handed to it has ended; update_trading_rules builds its own list
gather_first_completed(L) == L.done # {} \/ L.targets = {}
gather_returns(L) == L.done = L.targets
BalancesGathered ==
  /\ loopPc = "balances"
  /\ gather_returns(upd["loop"])
  /\ loopPc' = "rules"
  /\ upd' = [upd EXCEPT !["loop"].targets = ConnectorsOf(accounts["svc"]),
                        !["loop"].done = {}]
  /\ UNCHANGED <<diskVars, memVars, keysPc, dumpVars, timeVars, dockerVars,
                 backtestVars, unreferenced, orphaned, botVars, ret>>

\* _safe_update_trading_rules for the connector t ends (returned or raised
\* and logged: the rules themselves are no state of the model)
safe_update_trading_rules(t) ==
  /\ loopPc = "rules"
  /\ t \in upd["loop"].targets \ upd["loop"].done
  /\ upd' = [upd EXCEPT !["loop"].done = @ \cup {t}]
  /\ UNCHANGED <<diskVars, memVars, loopPc, keysPc, dumpVars, timeVars, dockerVars,
                 backtestVars, unreferenced, orphaned, botVars, ret>>

\* the gather of update_trading_rules (line 232) returns and
\* update_account_state runs to its first price lookup
RulesGathered ==
  /\ gather_returns(upd["loop"])
  /\ LoopRulesDone

\* ------------------------------------------------------------ the dump loop
Minute(t) == t \div 2
\* the sleep of N minutes from the truncated minute, without the step back
\* to the boundary (lines 125-126 left out)
next_log_time_unaligned(t, N) == (Minute(t) + N) * 2
\* dump_account_state_loop, lines 122-126, as an instant of the model clock
next_log_time(t, N) ==
  LET m == Minute(t) + N IN (m - ((m % 60) % N)) * 2

\* dump_account_state: one line appended to the history file
\* (the file is append-only; the model keeps its last line)
LastLines(hist) == IF Len(hist) > 1 THEN SubSeq(hist, 2, Len(hist)) ELSE hist
dump_account_state(hist, t, state, by) ==
  LastLines(Append(hist, [timestamp |-> t, state |-> state, by |-> by]))

\* the dump task is ready to run at this instant
DumpDue ==
  \/ dumpPc = "wait" /\ event["svc"]
  \/ dumpPc = "sleep" /\ now >= wakeAt

\* dump_account_state_loop: the wait on the event ends, the first line is
\* written and the loop sleeps
DumpFirst ==
  /\ dumpPc = "wait" /\ event["svc"]
  /\ history' = dump_account_state(history, now, accounts_state["svc"], "loop")
  /\ wakeAt' = next_log_time(now, interval)
  /\ dumpPc' = "sleep"
  /\ UNCHANGED <<diskVars, memVars, taskVars, firstSync, timeVars, dockerVars, backtestVars, unreferenced, orphaned, botVars, ret>>

\* dump_account_state_loop: the sleep ends, the next line is written
DumpNextAfterCycle ==
  /\ dumpPc = "sleep" /\ now >= wakeAt
  /\ loopPc \in {"off", "start", "sleep"}
  /\ history' = dump_account_state(history, now, accounts_state["svc"], "loop")
  /\ wakeAt' = next_log_time(now, interval)
  /\ UNCHANGED <<diskVars, memVars, taskVars, dumpPc, firstSync, timeVars,
                 dockerVars, backtestVars, unreferenced, orphaned, botVars, ret>>
DumpNext ==
  /\ dumpPc = "sleep" /\ now >= wakeAt
  /\ history' = dump_account_state(history, now, accounts_state["svc"], "loop")
  /\ wakeAt' = next_log_time(now, interval)
  /\ UNCHANGED <<diskVars, memVars, taskVars, dumpPc, firstSync, timeVars,
                 dockerVars, backtestVars, unreferenced, orphaned, botVars, ret>>

\* dump_account_state_loop when dump_account_state raises (the history file
\* cannot be written): line 120 logs the error and the finally block sleeps
\* to the next boundary
DumpFailsUncaught ==
  /\ DumpDue
  /\ dumpPc' = "off"
  /\ UNCHANGED <<diskVars, memVars, taskVars, wakeAt, history, firstSync, timeVars,
                 dockerVars, backtestVars, unreferenced, orphaned, botVars, ret>>
DumpFails ==
  /\ DumpDue
  /\ wakeAt' = next_log_time(now, interval)
  /\ dumpPc' = "sleep"
  /\ UNCHANGED <<diskVars, memVars, taskVars, history, firstSync, timeVars,
                 dockerVars, backtestVars, unreferenced, orphaned, botVars, ret>>

\* the wall clock advances by half a minute once every task that is due ran
Tick ==
  /\ now < MaxTime
  /\ ~DumpDue
  /\ now' = now + 1
  /\ UNCHANGED <<diskVars, memVars, taskVars, dumpVars, interval, dockerVars, backtestVars, unreferenced, orphaned, botVars, ret>>


\* ------------------------------------------------------ add_connector_keys
\* add_connector_keys up to its first await: the credential file is written
\* and the connector is constructed.
AddConnectorKeys(n, c) ==
  /\ keysPc.pc = "idle"
  /\ UNCHANGED <<nextWallet, secret_file, vault, memVars, loopPc, upd, dumpVars, timeVars, dockerVars, backtestVars, unreferenced, orphaned, botVars>>
  /\ IF ~disk[n].connDir
     THEN /\ ret' = Ret("add_connector_keys", "FileNotFoundError", 0)
          /\ UNCHANGED <<disk, keysPc>>
     ELSE /\ disk' = [disk EXCEPT ![n].creds = @ \cup {c}]
          /\ \E constructed \in BOOLEAN :
               IF constructed
               THEN /\ keysPc' = [pc |-> "balances", n |-> n, c |-> c]
                    /\ ret' = Ret("add_connector_keys", "pending", 0)
               ELSE /\ ret' = Ret("add_connector_keys", "ConnectorInitError", 0)
                    /\ UNCHANGED keysPc

\* how a call of update_account_state made by add_connector_keys ends:
\* suspended again, finished (dump_account_state follows, line 306) or
\* raising to the caller
KeysContinue(r) ==
  /\ accounts_state' = [accounts_state EXCEPT !["svc"] = r.st]
  /\ upd' = [upd EXCEPT !["keys"] = r.L]
  /\ IF r.out = "await"
     THEN /\ keysPc' = [keysPc EXCEPT !.pc = "state"]
          /\ UNCHANGED <<history, ret>>
     ELSE /\ keysPc' = IdleKeys
          /\ IF r.out = "done"
             THEN /\ history' = dump_account_state(history, now, r.st, "keys")
                  /\ ret' = Ret("add_connector_keys", "ok", 0)
             ELSE /\ ret' = Ret("add_connector_keys", r.out, 0)
                  /\ UNCHANGED history

\* add_connector_keys, lines 303-305: the new connector fetched its
\* balances, is registered, and update_account_state begins
KeysBalancesDone ==
  /\ keysPc.pc = "balances"
  /\ UNCHANGED <<diskVars, event, secret_key, loopPc, dumpPc, wakeAt, firstSync, timeVars, dockerVars, backtestVars, unreferenced, orphaned, botVars>>
  /\ \E fetched \in BOOLEAN, rep \in BalanceReports :
       IF ~fetched
       THEN /\ ret' = Ret("add_connector_keys", "BalanceError", 0)
            /\ keysPc' = IdleKeys
            /\ UNCHANGED <<accounts, accounts_state, upd, history>>
       ELSE IF keysPc.n \notin DOMAIN accounts["svc"]
       THEN /\ ret' = Ret("add_connector_keys", "KeyError", 0)
            /\ keysPc' = IdleKeys
            /\ UNCHANGED <<accounts, accounts_state, upd, history>>
       ELSE /\ accounts' = [accounts EXCEPT !["svc"][keysPc.n].conns =
                              Put(@, keysPc.c, rep)]
            /\ KeysContinue(update_account_state(accounts'["svc"], accounts_state["svc"]))

\* the price lookup of add_connector_keys' update_account_state returns
KeysResume ==
  /\ keysPc.pc = "state"
  /\ UNCHANGED <<diskVars, accounts, secret_key, loopPc, dumpPc, wakeAt, timeVars,
                 dockerVars, backtestVars, unreferenced, orphaned, botVars>>
  /\ SetEvent
  /\ \E answered \in BOOLEAN :
       KeysContinue(resume_account_state(accounts["svc"], accounts_state["svc"],
                                         upd["keys"], answered))

\* the last line of AccountsService.__init__ (line 55) for the object i
LoadSecretKey(i, random) ==
  /\ secret_key[i] = NoKey
  /\ LET r == load_or_generate_secret_key(secret_file, random) IN
       /\ secret_key' = [secret_key EXCEPT ![i] = r.key]
       /\ secret_file' = r.file
  /\ ret' = Ret("construct", "ok", 0)
  /\ UNCHANGED <<disk, nextWallet, vault, accounts, accounts_state, event, taskVars,
                 dumpVars, timeVars, dockerVars, backtestVars, unreferenced, orphaned,
                 botVars>>

\* the process ends and the next run begins: its service objects are
\* constructed up to line 54, none holds a key yet
ProcessStartsOver ==
  /\ \E i \in Insts : secret_key[i] # NoKey
  /\ secret_key' = [i \in Insts |-> NoKey]
  /\ accounts' = [i \in Insts |-> initialize_accounts(disk, [n \in Names |-> Connectors])]
  /\ accounts_state' = [i \in Insts |-> EmptyMap]
  /\ ret' = Ret("exit", "ok", 0)
  /\ UNCHANGED <<diskVars, event, taskVars, dumpVars, timeVars, dockerVars,
                 backtestVars, unreferenced, orphaned, botVars>>

\* ---------------------------------------------------------- process start
\* A new process run: every AccountsService object is constructed again
\* (__init__ with initialize_accounts); nothing in memory survives.
ProcessRestart ==
  /\ \A n \in list_accounts : ~list_credentials_fails(disk, n)
  /\ \E ok \in [Insts -> [Names -> SUBSET Connectors]] :
       accounts' = [i \in Insts |-> initialize_accounts(disk, ok[i])]
  /\ accounts_state' = [i \in Insts |-> EmptyMap]
  /\ event' = [i \in Insts |-> FALSE]
  /\ loopPc' = "off" /\ dumpPc' = "off" /\ keysPc' = IdleKeys
  /\ upd' = [t \in {"loop", "keys"} |-> IdleUpd]
  /\ wakeAt' = 0 /\ firstSync' = 0
  /\ ret' = Ret("construct", "ok", 0)
  /\ secret_key' = [i \in Insts |-> load_secret_key(secret_file)]
  /\ cache' = EmptyMap
  /\ orphaned' = 0
  /\ UNCHANGED <<diskVars, history, timeVars, dockerVars, request, botVars,
                 unreferenced>>


\* ------------------------------------------------------- worker creation
\* A worker's instance directory: bots/instances/hummingbot-<name>, with the
\* copy of the credentials profile under conf/ and the instance_id written
\* into conf/conf_client.yml.
instance_name(w) == <<"hummingbot", w>>
NoConf == [present |-> FALSE, creds |-> NoDir, instance_id |-> <<>>]
NoInstance == [dir |-> FALSE, conf |-> NoConf]

\* DockerManager.create_hummingbot_instance
CreateHummingbotInstance(w, profile) ==
  /\ UNCHANGED <<diskVars, memVars, taskVars, dumpVars, timeVars, botVars,
                 backtestVars, unreferenced, orphaned>>
  /\ LET made == [instances EXCEPT ![w].dir = TRUE]
         cleared == [made EXCEPT ![w].conf = NoConf]
         copied == [cleared EXCEPT ![w].conf =
                      [present |-> TRUE, creds |-> disk[profile], instance_id |-> <<>>]]
         named == [copied EXCEPT ![w].conf.instance_id = instance_name(w)]
     IN IF ~disk[profile].dir
        THEN /\ instances' = cleared
             /\ ret' = Ret("create_hummingbot_instance", "FileNotFoundError", 0)
             /\ UNCHANGED containers
        ELSE IF ~disk[profile].tmpl
        THEN /\ instances' = copied
             /\ ret' = Ret("create_hummingbot_instance", "FileNotFoundError", 0)
             /\ UNCHANGED containers
        ELSE /\ instances' = named
             /\ \E answers \in BOOLEAN :
                  IF answers /\ instance_name(w) \notin containers
                  THEN /\ containers' = containers \cup {instance_name(w)}
                       /\ ret' = Ret("create_hummingbot_instance", "ok", 0)
                  ELSE /\ ret' = Ret("create_hummingbot_instance", "DockerException", 0)
                       /\ UNCHANGED containers

\* DockerManager.remove_container
RemoveContainer(w) ==
  /\ UNCHANGED <<diskVars, memVars, taskVars, dumpVars, timeVars, instances, botVars,
                 backtestVars, unreferenced, orphaned>>
  /\ IF instance_name(w) \in containers
     THEN /\ containers' = containers \ {instance_name(w)}
          /\ ret' = Ret("remove_container", "ok", 0)
     ELSE /\ ret' = Ret("remove_container", "DockerException", 0)
          /\ UNCHANGED containers

\* ------------------------------------------------------------- the fleet
\* A container name is the sequence of its dash-separated parts; the test
\* `marker in container.name` is a test on the parts.
BrokerName == <<"hummingbot", "broker">>
ContainerNames ==
  {instance_name(w) : w \in Names} \cup {BrokerName, <<"postgres">>}
Statuses == {"running", "paused", "exited"}
Contains(name, marker) == \E k \in 1..Len(name) : name[k] = marker

\* whether docker.from_env() raises DockerException: never when the runtime
\* answers; when it does not, it depends on whether the library contacts the
\* runtime while it builds the client
FromEnvRaises == IF reachable THEN {FALSE} ELSE BOOLEAN

\* client.containers.list(): the containers that are up
containers_list(st) == {c \in ContainerNames : st[c] \in {"running", "paused"}}
\* client.containers.list(filters={"status": "running"})
containers_list_running(st) == {c \in ContainerNames : st[c] = "running"}

FleetUnchanged ==
  UNCHANGED <<diskVars, memVars, taskVars, dumpVars, timeVars, dockerVars, backtestVars, unreferenced, orphaned>>

\* DockerManager.__init__
ConstructDockerManager ==
  /\ client = "none"
  /\ \E raises \in FromEnvRaises : client' = IF raises THEN "unset" ELSE "set"
  /\ ret' = Ret("DockerManager", "ok", 0)
  /\ FleetUnchanged
  /\ UNCHANGED <<reachable, manager, status, active_bots, bus, gateway>>

\* DockerManager.get_active_containers
DockerActiveContainers(st) ==
  {c \in containers_list_running(st) :
     Contains(c, "hummingbot") /\ ~Contains(c, "broker")}

DockerGetActiveContainers ==
  /\ client # "none"
  /\ ret' = IF client = "unset"
            THEN Ret("docker.get_active_containers", "AttributeError", {})
            ELSE IF ~reachable
            THEN Ret("docker.get_active_containers", "error_text", {})
            ELSE Ret("docker.get_active_containers", "ok",
                     DockerActiveContainers(status))
  /\ FleetUnchanged
  /\ UNCHANGED botVars

\* BotsManager.__init__
ConstructBotsManager ==
  /\ manager = "none"
  /\ \E raises \in FromEnvRaises :
       IF raises
       THEN /\ manager' = "failed"
            /\ ret' = Ret("BotsManager", "DockerException", 0)
       ELSE /\ manager' = "ok"
            /\ ret' = Ret("BotsManager", "ok", 0)
  /\ active_bots' = EmptyMap
  /\ FleetUnchanged
  /\ UNCHANGED <<reachable, client, status, bus, gateway>>

\* BotsManager.hummingbot_containers_fiter
FilterAnyHummingbot(name) == Contains(name, "hummingbot")
hummingbot_containers_fiter(name) ==
  Contains(name, "hummingbot") /\ ~Contains(name, "broker")

\* BotsManager.get_active_containers
get_active_containers(st) ==
  {c \in containers_list(st) :
     st[c] = "running" /\ hummingbot_containers_fiter(c)}

BotsGetActiveContainers ==
  /\ manager = "ok"
  /\ ret' = IF reachable
            THEN Ret("bots.get_active_containers", "ok", get_active_containers(status))
            ELSE Ret("bots.get_active_containers", "DockerException", {})
  /\ FleetUnchanged
  /\ UNCHANGED botVars

\* the runtime: a container starts, pauses, exits or is removed
ContainerChanges(c, s) ==
  /\ status[c] # s
  /\ status' = [status EXCEPT ![c] = s]
  /\ FleetUnchanged
  /\ UNCHANGED <<reachable, client, manager, active_bots, bus, gateway, ret>>

\* containers.run(..., detach=True), lines 143-153: the container that
\* create_hummingbot_instance created is started by the runtime
ContainerStarts(w) ==
  /\ instance_name(w) \in containers
  /\ status[instance_name(w)] = "absent"
  /\ status' = [status EXCEPT ![instance_name(w)] = "running"]
  /\ FleetUnchanged
  /\ UNCHANGED <<reachable, client, manager, active_bots, bus, gateway, ret>>

\* the runtime goes away or comes back
ReachabilityChanges ==
  /\ reachable' = ~reachable
  /\ FleetUnchanged
  /\ UNCHANGED <<client, manager, status, active_bots, bus, gateway, ret>>

\* ------------------------------------------------------------- telemetry
Controllers == {"c1", "c2"}
MetricKeys == {"total_pnl", "close_type_counts"}
\* kinds of the values a performance report carries: a number, a text, a
\* mapping
MetricKinds == {"num", "str", "dict"}
\* the reports a worker publishes: empty, with the metric alone, with both
\* fields; the metric a number or a text, the counts a mapping or a text
PerformanceReports ==
  {r \in UNION {[K -> MetricKinds] : K \in {{}, {"total_pnl"}, MetricKeys}} :
     /\ "total_pnl" \in DOMAIN r => r["total_pnl"] \in {"num", "str"}
     /\ "close_type_counts" \in DOMAIN r => r["close_type_counts"] \in {"dict", "str"}}
Messages == UNION {[C -> PerformanceReports] : C \in (SUBSET Controllers) \ {{}}}
\* a log message: its level, and whether its type can be unpacked with **
Logs == [level_name : {"ERROR", "INFO"}, mapping : BOOLEAN]

\* HummingbotPerformanceListener.__init__
NewListener == [started |-> FALSE, performance |-> EmptyMap,
                error_logs |-> <<>>, general_logs |-> <<>>, bot_id |-> <<>>]
\* the performance topic of an instance id, under the namespace "hbot"
performance_topic(instance_id) == <<"hbot", instance_id, "performance">>
\* update_active_bots, lines 110-120, with the listener given the name of
\* the credentials profile
NewBotOfProfile(bot) ==
  [bot_name |-> bot, broker_client |-> bot,
   broker_listener |-> [NewListener EXCEPT !.started = TRUE, !.bot_id = <<bot[2]>>]]
NewBot(bot) == [bot_name |-> bot, broker_client |-> bot,
                broker_listener |-> [NewListener EXCEPT !.started = TRUE,
                                                        !.bot_id = bot]]
Registered(bot) == bot \in DOMAIN active_bots

\* deque(maxlen=...).append
list_append(q, x) == Append(q, x)
deque_append(q, x) ==
  IF Len(q) < maxlen THEN Append(q, x) ELSE Append(SubSeq(q, 2, Len(q)), x)

\* HummingbotPerformanceListener._update_bot_performance
UpdateBotPerformanceMerging(bot, msg) ==
  /\ Registered(bot) /\ active_bots[bot].broker_listener.started
  /\ active_bots' =
       [active_bots EXCEPT ![bot].broker_listener.performance =
          [c \in (DOMAIN @) \cup (DOMAIN msg) |->
             IF c \notin DOMAIN msg THEN @[c]
             ELSE IF c \notin DOMAIN @ THEN msg[c]
             ELSE [k \in (DOMAIN @[c]) \cup (DOMAIN msg[c]) |->
                     IF k \in DOMAIN msg[c] THEN msg[c][k] ELSE @[c][k]]]]
  /\ FleetUnchanged
  /\ UNCHANGED <<reachable, client, manager, status, bus, gateway, ret>>
UpdateBotPerformance(bot, msg) ==
  /\ Registered(bot) /\ active_bots[bot].broker_listener.started
  /\ active_bots' =
       [active_bots EXCEPT ![bot].broker_listener.performance =
          [c \in (DOMAIN @) \cup (DOMAIN msg) |->
             IF c \in DOMAIN msg THEN msg[c] ELSE @[c]]]
  /\ FleetUnchanged
  /\ UNCHANGED <<reachable, client, manager, status, bus, gateway, ret>>

\* HummingbotPerformanceListener._on_log
OnLog(bot, log) ==
  /\ Registered(bot) /\ active_bots[bot].broker_listener.started
  /\ LET l == active_bots[bot].broker_listener IN
       /\ Len(l.error_logs) + Len(l.general_logs) < MaxLogs
       /\ active_bots' =
            IF log.level_name = "ERROR"
            THEN [active_bots EXCEPT ![bot].broker_listener.error_logs =
                    deque_append(@, log)]
            ELSE [active_bots EXCEPT ![bot].broker_listener.general_logs =
                    deque_append(@, log)]
  /\ FleetUnchanged
  /\ UNCHANGED <<reachable, client, manager, status, bus, gateway, ret>>

\* _on_log as a function of the listener: the level picks the buffer
on_log(l, log) ==
  IF log.level_name = "ERROR"
  THEN [l EXCEPT !.error_logs = deque_append(@, log)]
  ELSE [l EXCEPT !.general_logs = deque_append(@, log)]

\* the log stream of a worker: every log carries its arrival number as
\* timestamp; the worker logs at the general levels first and at ERROR from
\* its first error on, up to Overflow logs beyond the capacity in each class
Last(q) == IF q = <<>> THEN 0 ELSE q[Len(q)].timestamp
Arrived(l) == IF Last(l.error_logs) > Last(l.general_logs)
              THEN Last(l.error_logs) ELSE Last(l.general_logs)
StreamLog(l, level) ==
  [level_name |-> level, mapping |-> TRUE, timestamp |-> Arrived(l) + 1]
LogArrives(bot, level) ==
  /\ Registered(bot) /\ active_bots[bot].broker_listener.started
  /\ LET l == active_bots[bot].broker_listener IN
       /\ level # "ERROR" => l.error_logs = <<>>
       /\ Arrived(l) < (IF level = "ERROR" THEN Last(l.general_logs) ELSE 0)
                         + maxlen + Overflow
       /\ active_bots' = [active_bots EXCEPT ![bot].broker_listener =
                            on_log(l, StreamLog(l, level))]
  /\ FleetUnchanged
  /\ UNCHANGED <<reachable, client, manager, status, bus, gateway, ret>>

\* update_active_bots, lines 103-121: the entries of the workers that are
\* no longer active are deleted, an entry is made for every new worker
reconcile_recreating(bots, active) == [bot \in active |-> NewBot(bot)]
reconcile(bots, active) ==
  [bot \in active |-> IF bot \in DOMAIN bots THEN bots[bot] ELSE NewBot(bot)]
\* the listeners of the deleted entries: `del` drops the registry's reference
\* and calls nothing on the listener
deleted_listeners(bots, active) ==
  {[bot_id |-> bot, started |-> bots[bot].broker_listener.started] :
     bot \in (DOMAIN bots) \ active}

\* one pass of BotsManager.update_active_bots
UpdateActiveBots ==
  /\ manager = "ok" /\ reachable
  /\ LET active == get_active_containers(status) IN
       /\ active_bots' = reconcile(active_bots, active)
       /\ unreferenced' = unreferenced \cup deleted_listeners(active_bots, active)
  /\ UNCHANGED <<diskVars, memVars, taskVars, dumpVars, timeVars, dockerVars,
                 backtestVars, orphaned>>
  /\ UNCHANGED <<reachable, client, manager, status, bus, gateway, ret>>

\* a command of the broker client: it is published on the bus and the
\* worker's reply, success or not, is returned
Command(op, bot, success) ==
  /\ bus' = Append(bus, [bot |-> bot, command |-> op])
  /\ ret' = Ret(op, IF success THEN "ok" ELSE "fail", bot)
\* the lookup self.active_bots[bot_name] made without the membership test
NotFoundUnchecked(op, bot) ==
  /\ ret' = Ret(op, "KeyError", bot)
  /\ UNCHANGED <<active_bots, bus>>
NotFound(op, bot) ==
  /\ ret' = Ret(op, "fail", bot)
  /\ UNCHANGED <<active_bots, bus>>

\* BotsManager.start_bot
StartBot(bot) ==
  /\ manager = "ok" /\ Len(bus) < MaxCommands
  /\ IF Registered(bot)
     THEN /\ active_bots' = [active_bots EXCEPT ![bot].broker_listener.started = TRUE]
          /\ \E success \in BOOLEAN : Command("start_bot", bot, success)
     ELSE NotFound("start_bot", bot)
  /\ FleetUnchanged
  /\ UNCHANGED <<reachable, client, manager, status, gateway>>

\* BotsManager.stop_bot
StopBot(bot) ==
  /\ manager = "ok" /\ Len(bus) < MaxCommands
  /\ IF Registered(bot)
     THEN /\ active_bots' = [active_bots EXCEPT
                               ![bot].broker_listener.started = FALSE,
                               ![bot].broker_listener.performance = EmptyMap]
          /\ \E success \in BOOLEAN : Command("stop_bot", bot, success)
     ELSE NotFound("stop_bot", bot)
  /\ FleetUnchanged
  /\ UNCHANGED <<reachable, client, manager, status, gateway>>

\* BotsManager.import_strategy_for_bot: the listener is not touched
ImportStrategyForBot(bot) ==
  /\ manager = "ok" /\ Len(bus) < MaxCommands
  /\ IF Registered(bot)
     THEN /\ \E success \in BOOLEAN : Command("import_strategy_for_bot", bot, success)
          /\ UNCHANGED active_bots
     ELSE NotFound("import_strategy_for_bot", bot)
  /\ FleetUnchanged
  /\ UNCHANGED <<reachable, client, manager, status, gateway>>

\* BotsManager.configure_bot
ConfigureBot(bot) ==
  /\ manager = "ok" /\ Len(bus) < MaxCommands
  /\ IF Registered(bot)
     THEN /\ \E success \in BOOLEAN : Command("configure_bot", bot, success)
          /\ UNCHANGED active_bots
     ELSE NotFound("configure_bot", bot)
  /\ FleetUnchanged
  /\ UNCHANGED <<reachable, client, manager, status, gateway>>

\* routers/instances.py stop_instance: DockerManager has no stop_bot, the
\* AttributeError (like the 403 of a foreign caller) is caught by the
\* handler's `except Exception` and answered with status 400 before the
\* gateway is called
StopInstance(bot) ==
  /\ client # "none"
  /\ ret' = Ret("stop_instance", "HTTP400", bot)
  /\ FleetUnchanged
  /\ UNCHANGED botVars

\* sum(metric for key, metric in performance.items() if key != "close_type_counts"):
\* adding anything but a number to the running total raises TypeError
sum_raises(performance) ==
  \E key \in DOMAIN performance :
    key # "close_type_counts" /\ performance[key] # "num"
\* ControllerPerformance(**performance): the required fields are present and
\* close_type_counts, when given, is a mapping
RequiredMetrics == {"total_pnl"}
validation_raises(performance) ==
  \/ ~(RequiredMetrics \subseteq DOMAIN performance)
  \/ \E key \in DOMAIN performance :
       \/ key = "close_type_counts" /\ performance[key] # "dict"
       \/ key # "close_type_counts" /\ performance[key] = "dict"

ControllerStatus(st, performance, error) ==
  [status |-> st, performance |-> performance, error |-> error]

\* BotsManager.determine_controller_performance
controller_status_unchecked(performance) ==
  IF validation_raises(performance)
  THEN ControllerStatus("error", EmptyMap, "ValidationError")
  ELSE ControllerStatus("running", performance, "none")
controller_status(performance) ==
  IF sum_raises(performance)
  THEN ControllerStatus("error", EmptyMap, "TypeError")
  ELSE IF validation_raises(performance)
  THEN ControllerStatus("error", EmptyMap, "ValidationError")
  ELSE ControllerStatus("running", performance, "none")

determine_controller_performance(controllers_performance) ==
  [controller \in DOMAIN controllers_performance |->
     controller_status(controllers_performance[controller])]

\* HummingbotPerformanceListener.get_bot_error_logs / get_bot_general_logs:
\* LogEntry(**log) raises TypeError for a log that is no mapping
log_entries_raise(logs) == \E k \in 1..Len(logs) : ~logs[k].mapping

BotStatus(st, performance) == [status |-> st, performance |-> performance]

\* whether BotStatus(...) rejects the LogEntry objects it is given for its
\* lists of dict: it depends on the validation library when there are any
BotStatusRaises(listener) ==
  IF Len(listener.error_logs) + Len(listener.general_logs) = 0
  THEN {FALSE} ELSE BOOLEAN

\* BotsManager.get_bot_status
bot_status_running_only(performance) ==
  IF \E c \in DOMAIN performance : performance[c].status = "running"
  THEN "running" ELSE "stopped"
bot_status(performance) ==
  IF Cardinality(DOMAIN performance) > 0 THEN "running" ELSE "stopped"

GetBotStatus(bot) ==
  /\ manager = "ok"
  /\ IF Registered(bot)
     THEN LET listener == active_bots[bot].broker_listener
              performance == determine_controller_performance(listener.performance)
          IN \E rejects \in BotStatusRaises(listener) :
               ret' = IF \/ log_entries_raise(listener.error_logs)
                         \/ log_entries_raise(listener.general_logs)
                         \/ rejects
                      THEN Ret("get_bot_status", "ok", BotStatus("error", EmptyMap))
                      ELSE Ret("get_bot_status", "ok",
                               BotStatus(bot_status(performance), performance))
     ELSE ret' = Ret("get_bot_status", "ok", BotStatus("not_found", EmptyMap))
  /\ FleetUnchanged
  /\ UNCHANGED botVars

\* ------------------------------------------------------------ backtesting
\* BacktestingService, as the methods read; the engines are the two objects
\* __init__ stores under "directional_trading" and "market_making".
\* A configuration is a dict from a subset of ConfigKeys, or a string.
ConfigKeys == {"controller_name", "candles_connector", "candles_trading_pair"}
ControllerNames == {"", "bollinger_v1", "pmm_simple", "generic_v1", "nonexistent"}
ConfigValues(k) == IF k = "controller_name" THEN ControllerNames ELSE {"binance"}
Dicts ==
  UNION {{c \in [K -> ControllerNames \cup {"binance"}] :
            \A k \in K : c[k] \in ConfigValues(k)} : K \in SUBSET ConfigKeys}
Configs ==
  {[is_dict |-> TRUE, items |-> c] : c \in Dicts}
    \cup {[is_dict |-> FALSE, items |-> EmptyMap]}
Times == {1000, 2000}
Requests == [start_time : Times, end_time : Times, config : Configs]
NoRequest ==
  [start_time |-> 1000, end_time |-> 2000,
   config |-> [is_dict |-> FALSE, items |-> EmptyMap]]

\* discover_strategies(): the controllers found under bots/controllers
discover_strategies ==
  [id \in {"bollinger_v1", "pmm_simple", "generic_v1"} |->
     IF id = "bollinger_v1" THEN "directional_trading"
     ELSE IF id = "pmm_simple" THEN "market_making" ELSE "generic"]
backtesting_engines == {"directional_trading", "market_making"}

\* what importing bots.controllers.<type>.<name> and building its config
\* class gives, and what the engine's run_backtesting gives
Modules == {"ok", "ImportError", "no_config_class", "ValidationError"}
EngineRaises == {"Exception", "ValueError"}
EngineOutcomes == {"dict", "dict_without_results", "not_dict"} \cup EngineRaises

Raised(out) == [out |-> out, val |-> 0]
Returned0(val) == [out |-> "ok", val |-> val]

\* StrategyRegistry._ensure_cache_loaded and get_strategy
ensure_cache_loaded(c) == IF c = EmptyMap THEN discover_strategies ELSE c
get_strategy(c, strategy_id) ==
  IF strategy_id \in DOMAIN ensure_cache_loaded(c)
  THEN Returned0([id |-> strategy_id,
                  strategy_type |-> ensure_cache_loaded(c)[strategy_id]])
  ELSE Raised("StrategyNotFoundError")

\* BacktestingService.validate_time_range
validate_time_range(start_time, end_time) ==
  IF start_time >= end_time THEN Raised("BacktestError") ELSE Returned0(0)

\* dict.get("controller_name"): None when the key is missing
config_get(items, k) == IF k \in DOMAIN items THEN items[k] ELSE "None"

\* BacktestingService.transform_strategy_config
transform_strategy_config(c, config, module) ==
  LET controller_name == config_get(config.items, "controller_name")
      strategy == get_strategy(c, controller_name)
  IN IF ~config.is_dict THEN Raised("AttributeError")
     ELSE IF controller_name \in {"None", ""} THEN Raised("BacktestError")
     ELSE IF strategy.out # "ok" THEN strategy
     ELSE IF module # "ok" THEN Raised("BacktestError")
     ELSE Returned0([controller_name |-> controller_name,
                     controller_type |-> strategy.val.strategy_type,
                     candles_config |->
                       {"candles_connector", "candles_trading_pair"}
                          \subseteq DOMAIN config.items])

\* whether a call of transform_strategy_config got as far as the registry
transform_loads_cache(config) ==
  /\ config.is_dict
  /\ config_get(config.items, "controller_name") \notin {"None", ""}

TransformStrategyConfig ==
  /\ \E module \in Modules :
       LET r == transform_strategy_config(cache, request.config, module)
       IN ret' = Ret("transform_strategy_config", r.out, r.val)
  /\ cache' = IF transform_loads_cache(request.config)
              THEN ensure_cache_loaded(cache) ELSE cache
  /\ UNCHANGED <<diskVars, memVars, taskVars, dumpVars, timeVars, dockerVars,
                 botVars, unreferenced, orphaned, request>>

\* BacktestingService.run_backtesting up to the call of the engine: "engine"
\* when the engine is called, with the transformed configuration
prepare_backtesting(c, req, module) ==
  LET valid == validate_time_range(req.start_time, req.end_time)
      strategy == get_strategy(c, req.config.items["controller_name"])
      transformed == transform_strategy_config(ensure_cache_loaded(c),
                                               req.config, module)
  IN IF valid.out # "ok" THEN valid
     ELSE IF ~req.config.is_dict THEN Raised("TypeError")
     ELSE IF "controller_name" \notin DOMAIN req.config.items THEN Raised("KeyError")
     ELSE IF strategy.out # "ok" THEN strategy
     ELSE IF transformed.out # "ok" THEN transformed
     ELSE IF strategy.val.strategy_type \notin backtesting_engines
     THEN Raised("BacktestError")
     ELSE [out |-> "engine", val |-> transformed.val]

\* the BacktestResponse: the engine's results, or the defaults
BacktestResponse(req, outcome) ==
  [results |-> IF outcome = "dict" THEN "engine_results" ELSE "default_results",
   start_timestamp |-> req.start_time, end_timestamp |-> req.end_time]

\* BacktestingService.run_backtesting
run_backtesting(c, req, module, outcome) ==
  LET prepared == prepare_backtesting(c, req, module)
  IN IF prepared.out # "engine" THEN prepared
     ELSE IF outcome \in EngineRaises THEN Raised(outcome)
     ELSE IF outcome = "not_dict" THEN Raised("BacktestError")
     ELSE Returned0(BacktestResponse(req, outcome))

run_loads_cache(req) ==
  /\ validate_time_range(req.start_time, req.end_time).out = "ok"
  /\ req.config.is_dict
  /\ "controller_name" \in DOMAIN req.config.items

RunBacktesting(module, outcome) ==
  /\ LET r == run_backtesting(cache, request, module, outcome)
     IN ret' = Ret("run_backtesting", r.out, r.val)
  /\ cache' = IF run_loads_cache(request) THEN ensure_cache_loaded(cache) ELSE cache
  /\ UNCHANGED <<diskVars, memVars, taskVars, dumpVars, timeVars, dockerVars,
                 botVars, unreferenced, orphaned, request>>

\* no backtesting call was made
BacktestIdle == request = NoRequest /\ cache = EmptyMap

\* the state of the fleet components constructed while the runtime answers
FleetUp ==
  /\ reachable = TRUE /\ client = "set" /\ manager = "ok"
  /\ status = [c \in ContainerNames |-> "absent"]
  /\ active_bots = EmptyMap /\ unreferenced = {}
  /\ bus = <<>> /\ gateway = {}

\* ------------------------------------------------------- specifications
DumpIntervals == {1, 5}

\* The state after the service objects were constructed over the disk d,
\* with the dump interval N.
ServiceInitAt(d, N, start) ==
  /\ disk = d
  /\ nextWallet = 1
  /\ vault = EmptyMap
  /\ accounts = [i \in Insts |-> initialize_accounts(d, [n \in Names |-> Connectors])]
  /\ accounts_state = [i \in Insts |-> EmptyMap]
  /\ event = [i \in Insts |-> FALSE]
  /\ loopPc = "off" /\ dumpPc = "off" /\ keysPc = IdleKeys
  /\ upd = [t \in {"loop", "keys"} |-> IdleUpd]
  /\ wakeAt = 0 /\ now = start /\ firstSync = 0 /\ orphaned = 0
  /\ interval = N
  /\ history = <<>>
  /\ instances = [w \in Names |-> NoInstance]
  /\ containers = {}
  /\ ret = Ret("construct", "ok", 0)

\* the same, for a process started at instant 0 of the model clock
ServiceInit(d, N) == ServiceInitAt(d, N, 0)

\* the state after every service object loaded the key of secret_key.txt
SecretInit(key) ==
  /\ secret_file = key
  /\ secret_key = [i \in Insts |-> load_secret_key(key)]

InitWith(d, N) == ServiceInit(d, N) /\ SecretInit(1) /\ FleetUp /\ BacktestIdle

\* a fresh installation: only the master account's folder exists
FreshDisk == [n \in Names |-> IF n = "master_account" THEN MasterDir ELSE NoDir]
\* an installation on which acct1 was provisioned with credentials for exA
ProvisionedDisk ==
  [n \in Names |-> IF n = "master_account" THEN MasterDir
                   ELSE [MasterDir EXCEPT !.creds = {"exA"}]]

Init == InitWith(FreshDisk, 1)

\* Synchronization: one service object, its background loop and the calls
\* that touch connectors, made for the account acct1.
Next ==
  \/ AddAccount("svc", "acct1")
  \/ DeleteAccount("svc", "acct1")
  \/ ProcessRestart
  \/ \E c \in Connectors : DeleteCredentials("svc", "acct1", c)
  \/ \E c \in Connectors : AddConnectorKeys("acct1", c)
  \/ KeysBalancesDone
  \/ KeysResume
  \/ StartLoops
  \/ StopLoops
  \/ LoopStartCycle
  \/ LoopBalancesDone
  \/ LoopRulesDone
  \/ LoopResume

Spec == Init /\ [][Next]_vars

\* Provisioning: the account and wallet calls on both service objects; the
\* second object is called for acct1 only.
Callers == {<<"svc", "master_account">>, <<"svc", "acct1">>, <<"router", "acct1">>}

NextAccounts ==
  \/ \E call \in Callers : AddAccount(call[1], call[2])
  \/ \E call \in Callers : DeleteAccount(call[1], call[2])
  \/ \E call \in Callers : GenerateBotWallet(call[1], call[2])
  \/ \E call \in Callers : GetBotWalletAddress(call[1], call[2])
  \/ \E c \in Connectors : DeleteCredentials("svc", "acct1", c)
  \/ ProcessRestart

SpecAccounts == Init /\ [][NextAccounts]_vars

\* Wallets beside connectors: acct1 is added and given a wallet through
\* either service object while connector keys are added to it through the
\* first.
WalletCallers == {<<"svc", "acct1">>, <<"router", "acct1">>}
NextWallets ==
  \/ \E call \in WalletCallers : AddAccount(call[1], call[2])
  \/ \E call \in WalletCallers : GenerateBotWallet(call[1], call[2])
  \/ \E call \in WalletCallers : GetBotWalletAddress(call[1], call[2])
  \/ \E c \in Connectors : AddConnectorKeys("acct1", c)
  \/ KeysBalancesDone
  \/ KeysResume

SpecWallets == Init /\ [][NextWallets]_vars

\* Provisioning under synchronization: accounts and wallets of one service
\* object while its loop runs.
NextProvision ==
  \/ \E n \in Names : AddAccount("svc", n)
  \/ \E n \in Names : GenerateBotWallet("svc", n)
  \/ ProcessRestart
  \/ StartLoops
  \/ LoopStartCycle
  \/ LoopBalancesDone
  \/ LoopRulesDone

SpecProvision == Init /\ [][NextProvision]_vars

\* The dump loop against the wall clock: a process run that found acct1 with
\* the credentials of exA on disk.
InitDump == \E N \in DumpIntervals : InitWith(ProvisionedDisk, N)

NextDump ==
  \/ \E n \in Names : DeleteAccount("svc", n)
  \/ StartLoops
  \/ LoopStartCycle
  \/ LoopBalancesDone
  \/ LoopRulesDone
  \/ LoopResume
  \/ DumpFirst
  \/ DumpNext
  \/ Tick

SpecDump == InitDump /\ [][NextDump]_vars

\* Both loops with their failures: the history file may refuse a write, an
\* account may be deleted under a running cycle, and the tasks may be
\* cancelled.  Every exchange reports ten units of every token.
FullReport == [t \in Tokens |-> 10]
NextLoops ==
  \/ DeleteAccount("svc", "acct1")
  \/ StartLoops
  \/ StopLoops
  \/ LoopStartCycle
  \/ \E okT \in SUBSET upd["loop"].targets :
       LoopBalancesDoneWith(okT, [t \in upd["loop"].targets |-> FullReport])
  \/ LoopRulesDone
  \/ LoopResume
  \/ DumpFirst
  \/ DumpNext
  \/ DumpFails
  \/ Tick

InitLoops == InitWith(ProvisionedDisk, 5)
SpecLoops == InitLoops /\ [][NextLoops]_vars

\* Eviction: credentials and accounts are deleted, and accounts added again,
\* while the loop of a process run that found both accounts provisioned is at
\* work.
InitEvict ==
  InitWith([n \in Names |-> [MasterDir EXCEPT !.creds = {"exA"}]], 1)

NextEvict ==
  \/ \E n \in Names, c \in Connectors : DeleteCredentials("svc", n, c)
  \/ \E n \in Names : DeleteAccount("svc", n)
  \/ \E n \in Names : AddAccount("svc", n)
  \/ StartLoops
  \/ StopLoops
  \/ LoopStartCycle
  \/ LoopBalancesDone
  \/ LoopRulesDone
  \/ LoopResume

SpecEvict == InitEvict /\ [][NextEvict]_vars

\* The loop tasks under any sequence of start and stop calls.
NextTasks ==
  \/ StartLoops
  \/ StartLoopsAgain
  \/ StopLoops
  \/ LoopStartCycle
  \/ LoopBalancesDone
  \/ LoopRulesDone
  \/ LoopResume

SpecTasks == InitEvict /\ [][NextTasks]_vars

\* The gathers: the loop of a process run that found both accounts
\* provisioned, every gathered coroutine ending in a step of its own.
NextGather ==
  \/ StartLoops
  \/ StopLoops
  \/ \E n \in Names : DeleteAccount("svc", n)
  \/ LoopStartCycle
  \/ \E t \in Names \X Connectors, ok \in BOOLEAN, rep \in BalanceReports :
       safe_update_balances(t, ok, rep)
  \/ BalancesGathered
  \/ \E t \in Names \X Connectors : safe_update_trading_rules(t)
  \/ RulesGathered
  \/ LoopResume

SpecGather == InitEvict /\ [][NextGather]_vars

\* The gathers under the scheduling of the event loop: a coroutine that is
\* ready to run is run, and every connector call returns or raises in the
\* end, except the calls of the connector Hung, which may stay pending for
\* ever (_update_balances and _update_trading_rules are awaited without a
\* timeout, lines 223 and 236).
Hung == <<"acct1", "exA">>
Responsive == (Names \X Connectors) \ {Hung}
NextHang ==
  \/ StartLoops
  \/ LoopStartCycle
  \/ \E t \in Names \X Connectors, ok \in BOOLEAN, rep \in BalanceReports :
       safe_update_balances(t, ok, rep)
  \/ BalancesGathered
  \/ \E t \in Names \X Connectors : safe_update_trading_rules(t)
  \/ RulesGathered
  \/ LoopResume

SpecHang ==
  /\ InitEvict /\ [][NextHang]_vars
  /\ WF_vars(StartLoops) /\ WF_vars(LoopStartCycle)
  /\ WF_vars(BalancesGathered) /\ WF_vars(RulesGathered) /\ WF_vars(LoopResume)
  /\ \A t \in Responsive :
       /\ WF_vars(\E ok \in BOOLEAN, rep \in BalanceReports : safe_update_balances(t, ok, rep))
       /\ WF_vars(safe_update_trading_rules(t))

\* Worker creation next to the provisioning calls that change a profile.
NextFleet ==
  \/ \E n \in Names : AddAccount("svc", n)
  \/ \E n \in Names : GenerateBotWallet("svc", n)
  \/ \E n \in Names : DeleteAccount("svc", n)
  \/ \E w \in Names, profile \in Names : CreateHummingbotInstance(w, profile)
  \/ \E w \in Names : RemoveContainer(w)

SpecFleet == Init /\ [][NextFleet]_vars


\* Worker commands: the fleet components of a process whose runtime runs the
\* worker of acct1 and the broker.
WorkerNames == {instance_name(w) : w \in Names}
RunningFleet ==
  /\ reachable = TRUE /\ client = "set" /\ manager = "ok"
  /\ status = [c \in ContainerNames |->
                 IF c \in {instance_name("acct1"), BrokerName}
                 THEN "running" ELSE "absent"]
  /\ active_bots = EmptyMap /\ unreferenced = {}
  /\ bus = <<>> /\ gateway = {}

InitCommands ==
  ServiceInit(FreshDisk, 1) /\ SecretInit(1) /\ RunningFleet /\ BacktestIdle

NextCommands ==
  \/ UpdateActiveBots
  \/ \E bot \in WorkerNames : StartBot(bot)
  \/ \E bot \in WorkerNames : StopBot(bot)
  \/ \E bot \in WorkerNames : StopInstance(bot)
  \/ \E c \in WorkerNames, s \in {"running", "exited"} : ContainerChanges(c, s)

SpecCommands == InitCommands /\ [][NextCommands]_vars

\* Telemetry: the listener of the worker of acct1 receives performance
\* messages and logs while callers ask for the worker's status.
NextTelemetry ==
  \/ UpdateActiveBots
  \/ \E bot \in WorkerNames, msg \in Messages : UpdateBotPerformance(bot, msg)
  \/ \E bot \in WorkerNames, log \in Logs : OnLog(bot, log)
  \/ \E bot \in WorkerNames : GetBotStatus(bot)

SpecTelemetry == InitCommands /\ [][NextTelemetry]_vars

\* Log buffers: the listener of the worker of acct1 receives a long stream
\* of logs.
NextLogs ==
  \/ UpdateActiveBots
  \/ \E bot \in WorkerNames, level \in {"ERROR", "INFO"} :
       LogArrives(bot, level)

SpecLogs == InitCommands /\ [][NextLogs]_vars

\* Performance reports: the worker of acct1 exits and starts again while
\* the listeners receive performance messages.
NextReports ==
  \/ UpdateActiveBots
  \/ \E s \in {"running", "exited"} : ContainerChanges(instance_name("acct1"), s)
  \/ \E bot \in WorkerNames, msg \in Messages : UpdateBotPerformance(bot, msg)

SpecReports == InitCommands /\ [][NextReports]_vars

\* Workers from creation to telemetry: instances are created from the
\* profiles on disk, the runtime starts and ends their containers, and the
\* reconciliation loop registers them.
NextWorkers ==
  \/ \E n \in Names : DeleteAccount("svc", n)
  \/ \E w \in Names, profile \in Names : CreateHummingbotInstance(w, profile)
  \/ \E w \in Names : ContainerStarts(w)
  \/ \E w \in Names : /\ status[instance_name(w)] = "running"
                       /\ ContainerChanges(instance_name(w), "exited")
  \/ UpdateActiveBots

SpecWorkers == Init /\ [][NextWorkers]_vars

\* Custody: wallets are generated and their private keys read back by both
\* service objects of a process that loaded either secret.
InitCustody ==
  /\ ServiceInit(FreshDisk, 1)
  /\ \E key \in SecretKeys : SecretInit(key)
  /\ FleetUp /\ BacktestIdle

NextCustody ==
  \/ AddAccount("svc", "acct1")
  \/ DeleteAccount("svc", "acct1")
  \/ \E call \in Callers : GenerateBotWallet(call[1], call[2])
  \/ \E call \in Callers, w \in 1..MaxWallets :
       GetBotWalletPrivateKey(call[1], call[2], w)
  \/ ProcessRestart

SpecCustody == InitCustody /\ [][NextCustody]_vars

\* The secret from the first run on: an installation without secret_key.txt
\* or with one from an earlier run; the service objects reach the end of
\* their constructors one after the other, and only a constructed object is
\* called.
InitSecret ==
  /\ ServiceInit(FreshDisk, 1)
  /\ secret_file \in {NoKey} \cup SecretKeys
  /\ secret_key = [i \in Insts |-> NoKey]
  /\ FleetUp /\ BacktestIdle

Constructed(i) == secret_key[i] # NoKey
NextSecret ==
  \/ \E i \in Insts, random \in SecretKeys : LoadSecretKey(i, random)
  \/ ProcessStartsOver
  \/ \E i \in Insts : Constructed(i) /\ AddAccount(i, "acct1")
  \/ \E i \in Insts : Constructed(i) /\ GenerateBotWallet(i, "acct1")
  \/ \E i \in Insts, w \in 1..MaxWallets :
       Constructed(i) /\ GetBotWalletPrivateKey(i, "acct1", w)

SpecSecret == InitSecret /\ [][NextSecret]_vars

\* The fleet components from their construction on, next to a runtime whose
\* containers come and go and which may be unreachable at any time.
InitRuntime ==
  /\ ServiceInit(FreshDisk, 1) /\ SecretInit(1)
  /\ reachable \in BOOLEAN
  /\ client = "none" /\ manager = "none"
  /\ status = [c \in ContainerNames |-> "absent"]
  /\ active_bots = EmptyMap /\ unreferenced = {}
  /\ bus = <<>> /\ gateway = {}
  /\ BacktestIdle

NextRuntime ==
  \/ ConstructDockerManager
  \/ ConstructBotsManager
  \/ DockerGetActiveContainers
  \/ BotsGetActiveContainers
  \/ \E c \in ContainerNames, s \in Statuses : ContainerChanges(c, s)
  \/ ReachabilityChanges

SpecRuntime == InitRuntime /\ [][NextRuntime]_vars

\* Backtesting calls of a caller that holds one request.
InitBacktest ==
  /\ ServiceInit(FreshDisk, 1) /\ SecretInit(1) /\ FleetUp
  /\ request \in Requests
  /\ cache = EmptyMap

NextBacktest ==
  \/ TransformStrategyConfig
  \/ \E module \in Modules, outcome \in EngineOutcomes : RunBacktesting(module, outcome)

SpecBacktest == InitBacktest /\ [][NextBacktest]_vars

\* ================================================================ claims
HasConnector(i, n, c) == n \in DOMAIN accounts[i] /\ c \in DOMAIN accounts[i][n].conns
HasSnapshot(i, n, k) == n \in DOMAIN accounts_state[i] /\ k \in DOMAIN accounts_state[i][n]
AddingKeys(n, c) == keysPc.pc # "idle" /\ keysPc.n = n /\ keysPc.c = c

\* C1: once delete_credentials removed the credential file of (account,
\* connector), neither the registry nor the snapshot holds an entry for the
\* pair until credentials for the connector are added again, whatever ran
\* concurrently.
C1_NoEntryWithoutCredentials ==
  \A n \in Names, c \in Connectors :
    (c \notin disk[n].creds /\ ~AddingKeys(n, c))
      => (~HasConnector("svc", n, c) /\ ~HasSnapshot("svc", n, c))

\* C2: every known account that has no connector has an entry in
\* accounts_state whose connector map is empty.
C2_ZeroConnectorsEmptyMap ==
  \A i \in Insts : \A n \in DOMAIN accounts[i] :
    DOMAIN accounts[i][n].conns = {}
      => (n \in DOMAIN accounts_state[i] /\ accounts_state[i][n] = EmptyMap)

\* C3: no entry of accounts_state names a token of BANNED_TOKENS, whatever
\* the connectors report.
C3_NoDenylistedToken ==
  \A i \in Insts : \A n \in DOMAIN accounts_state[i] :
    \A k \in DOMAIN accounts_state[i][n] :
      \A j \in 1..Len(accounts_state[i][n][k]) :
        accounts_state[i][n][k][j].token \notin BANNED_TOKENS

\* C3 witness: a connector holds a non-zero balance of a denylisted token and
\* a snapshot with an entry was stored for it after add_connector_keys ran.
C3_Witness ==
  /\ ret.op = "add_connector_keys" /\ ret.out = "ok"
  /\ HasConnector("svc", "acct1", "exA") /\ HasSnapshot("svc", "acct1", "exA")
  /\ accounts["svc"]["acct1"].conns["exA"]["NAV"] # 0
  /\ Len(accounts_state["svc"]["acct1"]["exA"]) > 0

\* C4: add_account for a name whose folder exists fails with the
\* already-exists error and changes neither the disk nor the dictionaries.
C4_AddExistingFails ==
  [][\A i \in Insts, n \in Names :
       (AddAccount(i, n) /\ path_exists(disk, n))
         => (ret'.out = "AlreadyExists"
             /\ UNCHANGED <<disk, accounts, accounts_state>>)]_vars

RecordedInMemory(i, n) ==
  n \in DOMAIN accounts[i] /\ accounts[i][n].wkey /\ accounts[i][n].wallet # 0
RecordedOnDisk(n) == disk[n].info.kind = "valid"
KeepsWallet(i, n) ==
  /\ RecordedInMemory(i, n)
       => (n \in DOMAIN accounts'[i] /\ accounts'[i][n].wkey
           /\ accounts'[i][n].wallet = accounts[i][n].wallet)
  /\ RecordedOnDisk(n) => disk'[n].info = disk[n].info
Deletes(n) == \E j \in Insts : DeleteAccount(j, n)
Generates(n) == \E j \in Insts : GenerateBotWallet(j, n)

\* C5 as claimed: within a process run, a recorded wallet address (in the
\* registry and in account_info.json) changes by no step other than the
\* deletion of the account.
C5_WalletNeverChanges ==
  [][\A i \in Insts, n \in Names :
       (~Deletes(n) /\ ~ProcessRestart) => KeepsWallet(i, n)]_vars

\* C5 as amended: within a process run, a recorded wallet address changes by
\* no step other than the deletion of the account and a further
\* generate_bot_wallet for it.
C5_WalletChangesOnlyByGenerate ==
  [][\A i \in Insts, n \in Names :
       ~KeepsWallet(i, n) => (Deletes(n) \/ Generates(n) \/ ProcessRestart)]_vars

\* C5 witness: a second wallet was generated for acct1 and replaced the first
\* in the registry and in account_info.json.
C5_Witness ==
  /\ RecordedInMemory("svc", "acct1") /\ accounts["svc"]["acct1"].wallet = 2
  /\ disk["acct1"].info = [kind |-> "valid", wallet |-> 2]
  /\ disk["acct1"].keys = {1, 2}

\* C6: get_bot_wallet_address returns the cached address; on a miss the one
\* of account_info.json; and fails with the wallet-not-found error when
\* neither exists.
C6_WalletAddressLookup ==
  [][\A i \in Insts, n \in Names :
       GetBotWalletAddress(i, n) =>
         IF RecordedInMemory(i, n)
         THEN ret' = Ret("get_bot_wallet_address", "ok", accounts[i][n].wallet)
         ELSE IF RecordedOnDisk(n)
         THEN ret' = Ret("get_bot_wallet_address", "ok", disk[n].info.wallet)
         ELSE disk[n].info.kind = "absent" => ret'.out = "WalletNotFound"]_vars

\* C7: create_hummingbot_instance for a worker whose instance directory
\* exists fails and leaves the directory as it was.
C7_SecondCreateFails ==
  [][\A w \in Names, profile \in Names :
       (CreateHummingbotInstance(w, profile) /\ instances[w].dir)
         => (ret'.out # "ok" /\ instances'[w] = instances[w])]_vars

\* C8: the first line the dump loop writes is written at a wall-clock
\* instant whose second is zero and whose minute is a multiple of the dump
\* interval.
OnBoundary(t, N) == t % 2 = 0 /\ (Minute(t) % 60) % N = 0
C8_FirstDumpAligned == [][DumpFirst => OnBoundary(now, interval)]_vars

\* C9: no line written by the dump loop carries an empty snapshot.
C9_NoEmptyDump ==
  \A k \in 1..Len(history) :
    history[k].by = "loop" => history[k].state # EmptyMap

Gone(i, n) ==
  /\ ~path_exists(disk', n)
  /\ n \notin DOMAIN accounts'[i]
  /\ n \notin DOMAIN accounts_state'[i]

\* C10: after delete_account for an account whose folder exists, the account
\* is absent from the credentials directory, from accounts and from
\* accounts_state.
C10_DeleteAccountRemovesAll ==
  [][\A i \in Insts, n \in Names :
       (path_exists(disk, n) /\ ~Gone(i, n)) => ~DeleteAccount(i, n)]_vars

\* C10 witness: delete_account ran on an account found by the startup scan
\* before any synchronization cycle stored a snapshot for it.
C10_Witness ==
  /\ ret = Ret("delete_account", "KeyError", 0)
  /\ ~path_exists(disk, "acct1")
  /\ "acct1" \notin DOMAIN accounts["svc"]
  /\ "acct1" \notin DOMAIN accounts_state["svc"]

\* C11: a stop of a worker is reported successful only if a request to
\* cancel the open orders of the worker's account was issued to the gateway.
C11_StopCancelsOrders ==
  [][\A bot \in WorkerNames :
       ((StopBot(bot) \/ StopInstance(bot)) /\ ret'.out = "ok")
         => \E sent \in gateway' :
              sent.bot = bot /\ sent.request = "cancel_orders"]_vars

\* C12: when the price lookup of a connector times out or raises, the
\* snapshot stored for the connector still has one entry per balance, the
\* entries whose price was looked up carry price zero and value zero, and
\* the cycle goes on exactly as it does after an answered lookup.
C12_TimeoutGivesZeroPrice ==
  [][(LoopResumeWith(FALSE) /\ upd["loop"].cur \in DOMAIN accounts_state["svc"])
       => LET L == upd["loop"]
              info == accounts_state'["svc"][L.cur][L.key]
              answered == resume_account_state(accounts["svc"], accounts_state["svc"],
                                               L, TRUE)
          IN /\ Len(info) = Len(L.balances)
             /\ \A k \in 1..Len(info) :
                  /\ info[k].token = L.balances[k].token
                  /\ info[k].units = L.balances[k].units
                  /\ ~ContainsUSD(info[k].token)
                       => (info[k].price = 0 /\ info[k].value = 0)
             /\ upd'["loop"] = answered.L
             /\ loopPc' = IF answered.out = "await" THEN "state" ELSE "sleep"]_vars

\* C12 witness: within one cycle the lookup for master_account timed out and
\* left a SOL entry priced zero, and the cycle went on to price acct1's SOL.
PricedAt(n, token, price) ==
  /\ HasSnapshot("svc", n, "exA")
  /\ \E k \in 1..Len(accounts_state["svc"][n]["exA"]) :
       LET e == accounts_state["svc"][n]["exA"][k]
       IN e.token = token /\ e.units = 10 /\ e.price = price
          /\ e.value = price * 10
C12_Witness ==
  /\ loopPc = "sleep"
  /\ PricedAt("master_account", "SOL", 0)
  /\ PricedAt("acct1", "SOL", 20)

HasNonNumericMetric(report) ==
  \E key \in (DOMAIN report) \ {"close_type_counts"} : report[key] # "num"
Only(reports, controller) == [c \in {controller} |-> reports[c]]

\* C13: determine_controller_performance gives every cached record a status;
\* a record with a non-numeric metric other than close_type_counts gets
\* 'error' and a diagnostic, 'running' is given only to records whose other
\* metrics are all numeric, and the status of a record does not depend on
\* the records of the other sub-strategies.
C13_InvalidRecordMarkedError ==
  [][\A bot \in WorkerNames :
       (GetBotStatus(bot) /\ Registered(bot) /\ ret'.val.status # "error")
         => LET reports == active_bots[bot].broker_listener.performance
                result == ret'.val.performance
            IN /\ DOMAIN result = DOMAIN reports
               /\ \A c \in DOMAIN reports :
                    /\ HasNonNumericMetric(reports[c])
                         => (result[c].status = "error" /\ result[c].error # "none")
                    /\ result[c].status = "running" => ~HasNonNumericMetric(reports[c])
                    /\ result[c] = determine_controller_performance(Only(reports, c))[c]]_vars

\* C13 witness: a status was returned in which the record of c1, which has a
\* text for total_pnl, is marked 'error' next to the 'running' record of c2.
C13_Witness ==
  /\ ret.op = "get_bot_status" /\ ret.out = "ok"
  /\ ret.val.status = "running"
  /\ DOMAIN ret.val.performance = Controllers
  /\ ret.val.performance["c1"].status = "error"
  /\ ret.val.performance["c2"].status = "running"

HasLogs(listener) == Len(listener.error_logs) + Len(listener.general_logs) > 0

\* C14: get_bot_status for a registered worker never raises; it answers
\* 'running' only with at least one cached record and 'stopped' only with
\* none, and answers 'error' only when something raised, which takes a
\* cached log.
C14_StatusRunningIffRecords ==
  [][\A bot \in WorkerNames :
       (GetBotStatus(bot) /\ Registered(bot))
         => LET listener == active_bots[bot].broker_listener
                records == DOMAIN listener.performance
            IN /\ ret'.out = "ok"
               /\ ret'.val.status \in {"running", "stopped", "error"}
               /\ ret'.val.status = "running" => records # {}
               /\ ret'.val.status = "stopped" => records = {}
               /\ ~HasLogs(listener) => ret'.val.status # "error"
               /\ log_entries_raise(listener.error_logs) => ret'.val.status = "error"
               /\ log_entries_raise(listener.general_logs) => ret'.val.status = "error"]_vars

\* C14 witness: 'running' was answered for a worker whose only cached record
\* is invalid.
C14_Witness ==
  /\ ret.op = "get_bot_status" /\ ret.out = "ok"
  /\ ret.val.status = "running"
  /\ DOMAIN ret.val.performance = {"c1"}
  /\ ret.val.performance["c1"].status = "error"

RoundTrip ==
  \A key \in SecretKeys, private_key \in Plaintexts, nonce \in Nonces :
    decrypt_private_key(key, encrypt_private_key(key, private_key, nonce))
      = [ok |-> TRUE, text |-> private_key]

\* C15: decrypting what _encrypt_private_key produced, under the same
\* secret, gives the plaintext back; and get_bot_wallet_private_key returns,
\* for a key file of the account, the private key generate_bot_wallet
\* produced for the address.
C15_KeyRoundTrip ==
  [][\A i \in Insts, n \in Names, w \in 1..MaxWallets :
       (GetBotWalletPrivateKey(i, n, w) /\ w \in disk[n].keys)
         => /\ RoundTrip
            /\ ret'.out = "ok"
            /\ ret'.val = private_key_of(w)]_vars

\* C15 witness: the private key of the second wallet of acct1 was read back.
C15_Witness ==
  /\ ret.op = "get_bot_wallet_private_key" /\ ret.out = "ok"
  /\ 2 \in disk["acct1"].keys
  /\ ret.val = private_key_of(2)

\* The entries the loop's recomputation stored at the return of a price
\* lookup, next to the balances they were assembled from.
StoredBy(answered) ==
  LoopResumeWith(answered) /\ upd["loop"].cur \in DOMAIN accounts_state["svc"]
Returned(token, answered) == IF answered THEN LastTradedPrice[token] ELSE 0

C17_NoBrokerOnlyRunning ==
  [][(DockerGetActiveContainers \/ BotsGetActiveContainers)
       => \A c \in ret'.val :
            /\ ~Contains(c, "broker")
            /\ status[c] = "running"]_vars

\* C17 witness: the broker named hummingbot-broker and acct1's worker run,
\* master_account's worker is paused, and the list holds acct1's worker only.
C17_Witness ==
  /\ ret.op = "bots.get_active_containers" /\ ret.out = "ok"
  /\ status[BrokerName] = "running"
  /\ status[instance_name("acct1")] = "running"
  /\ status[instance_name("master_account")] = "paused"
  /\ ret.val = {instance_name("acct1")}

\* C18: constructing DockerManager or BotsManager never fails, whether or not
\* the container runtime is reachable.
C18_ConstructionNeverFails ==
  [][(ConstructDockerManager \/ ConstructBotsManager) => ret'.out = "ok"]_vars

\* C19: transform_strategy_config, given a configuration naming a strategy
\* the registry does not know, fails with a BacktestError and with no other
\* exception type.
NamesUnknownStrategy(config) ==
  /\ config.is_dict
  /\ "controller_name" \in DOMAIN config.items
  /\ config.items["controller_name"] # ""
  /\ config.items["controller_name"] \notin DOMAIN discover_strategies
C19_UnknownStrategyIsBacktestError ==
  [][(TransformStrategyConfig /\ NamesUnknownStrategy(request.config))
       => ret'.out = "BacktestError"]_vars

\* C20: when the engine raises during run_backtesting, run_backtesting fails
\* with a BacktestError; the engine's exception does not reach the caller.
C20_EngineErrorIsBacktestError ==
  [][\A module \in Modules, outcome \in EngineRaises :
       (/\ RunBacktesting(module, outcome)
        /\ prepare_backtesting(cache, request, module).out = "engine")
         => ret'.out = "BacktestError"]_vars

\* C21: in the discovery step of a cycle, a failure confined to one account
\* (its credential files cannot be listed) or to one connector (it cannot be
\* constructed) is skipped: the cycle goes on to the balance refresh, and
\* every connector of the other accounts that can be constructed is
\* registered.
C21_DiscoveryFailureIsolated ==
  [][\A order \in Orders, ok \in [Names -> SUBSET Connectors] :
       LoopStartCycleWith(order, ok)
         => /\ loopPc' = "balances"
            /\ \A n \in list_accounts :
                 ~list_credentials_fails(disk, n)
                   => \A c \in disk[n].creds \cap ok[n] :
                        /\ n \in DOMAIN accounts'["svc"]
                        /\ c \in DOMAIN accounts'["svc"][n].conns]_vars

\* A list that has exactly one entry for every non-zero, non-denylisted
\* token the connector reported, with the reported units.
Complete(info, conn) ==
  /\ \A t \in Tokens :
       (conn[t] # 0 /\ t \notin BANNED_TOKENS)
         <=> \E j \in 1..Len(info) : info[j].token = t
  /\ \A j \in 1..Len(info) : info[j].units = conn[info[j].token]
  /\ \A j1, j2 \in 1..Len(info) : info[j1].token = info[j2].token => j1 = j2
SameTokens(info, balances) ==
  /\ Len(info) = Len(balances)
  /\ \A j \in 1..Len(info) :
       info[j].token = balances[j].token /\ info[j].units = balances[j].units
Stored(n, k) ==
  /\ HasSnapshot("svc", n, k)'
  /\ \/ ~HasSnapshot("svc", n, k)
     \/ accounts_state'["svc"][n][k] # accounts_state["svc"][n][k]

C23_EvictionStopsListener ==
  [][UpdateActiveBots
       => \A bot \in WorkerNames :
            (Registered(bot) /\ ~Registered(bot)')
              => ~\E l \in unreferenced' : l.bot_id = bot /\ l.started]_vars

\* the running containers named as workers and not as the broker
LiveWorkers ==
  {c \in ContainerNames :
     status[c] = "running" /\ Contains(c, "hummingbot") /\ ~Contains(c, "broker")}

\* C24: at the end of every pass of update_active_bots the keys of
\* active_bots are exactly the running worker containers, every entry holds
\* one listener and one command client for its worker, and the entry of a
\* worker that was registered before the pass is the object it was.
C24_RegistryIsLiveSet ==
  [][UpdateActiveBots
       => /\ DOMAIN active_bots' = LiveWorkers
          /\ \A bot \in DOMAIN active_bots' :
               /\ active_bots'[bot].bot_name = bot
               /\ active_bots'[bot].broker_client = bot
               /\ IF Registered(bot)
                  THEN active_bots'[bot] = active_bots[bot]
                  ELSE active_bots'[bot].broker_listener
                         = [NewListener EXCEPT !.started = TRUE, !.bot_id = bot]]_vars

\* C24 witness: after passes in which master_account's worker came and
\* acct1's worker stayed, acct1's entry still holds the listener that
\* stop_bot stopped, next to the started listener of the new worker; the
\* broker runs and has no entry.
C24_Witness ==
  /\ status[BrokerName] = "running"
  /\ DOMAIN active_bots = WorkerNames
  /\ LiveWorkers = WorkerNames
  /\ ~active_bots[instance_name("acct1")].broker_listener.started
  /\ active_bots[instance_name("master_account")].broker_listener.started
  /\ ret.op = "stop_bot" /\ ret.val = instance_name("acct1")

\* the update tasks (and, alike, the dump tasks) the service created that
\* are live: the one the handle names and those whose handle was overwritten
LiveTasks == orphaned + (IF loopPc # "off" THEN 1 ELSE 0)

\* C25: after any sequence of start and stop calls at most one update task
\* and one dump task are live, and after a stop none is.
C25_AtMostOneTaskPair ==
  /\ LiveTasks <= 1
  /\ ret.op = "stop_update_account_state_loop" => LiveTasks = 0

C27_PhasesInOrder ==
  [][/\ (loopPc = "balances" /\ loopPc' = "rules")
          => upd["loop"].done = upd["loop"].targets
     /\ (loopPc = "rules" /\ loopPc' \in {"state", "sleep"})
          => upd["loop"].done = upd["loop"].targets
     /\ upd'["loop"].done # upd["loop"].done /\ upd'["loop"].done # {}
          => loopPc' = loopPc /\ loopPc \in {"balances", "rules"}]_vars
\* both connectors ended their trading-rule refresh, after a balance phase
\* in which one of the two raised
C27_Witness ==
  /\ loopPc = "rules"
  /\ Cardinality(upd["loop"].targets) = 2
  /\ upd["loop"].done = upd["loop"].targets
  /\ upd["loop"].logged = {<<"acct1", "exA">>}

\* C28: neither loop ends because of an exception raised inside a cycle.  A
\* task leaves its loop only in stop_update_account_state_loop; a cycle of
\* the update loop that raised, and a dump that raised, leave the task
\* asleep, and a sleeping task runs its next cycle when it wakes.  (The
\* cycles that raise here raise in update_account_state, under a deleted
\* account.)
CycleRaised(out) == out \notin {"ok", "await", "done"}
C28_LoopsSurviveExceptions ==
  [][/\ (loopPc # "off" /\ loopPc' = "off") => StopLoops
     /\ (dumpPc # "off" /\ dumpPc' = "off") => StopLoops
     /\ \A answered \in BOOLEAN :
          /\ LoopResumeWith(answered)
          /\ CycleRaised(resume_account_state(accounts["svc"], accounts_state["svc"],
                                         upd["loop"], answered).out)
          => loopPc' = "sleep"
     /\ DumpFails => dumpPc' = "sleep" /\ wakeAt' > now
     /\ loopPc = "sleep" => ENABLED LoopStartCycle
     /\ (dumpPc = "sleep" /\ now >= wakeAt) => ENABLED DumpNext]_vars
\* the first dump raised (the task sleeps although no line was ever
\* written), the update loop sleeps after a cycle, and the dump task has
\* woken up for its next cycle
C28_Witness ==
  /\ loopPc = "sleep"
  /\ dumpPc = "sleep"
  /\ history = <<>>
  /\ wakeAt > 0 /\ now >= wakeAt

\* C29: a connector whose balance-refresh or trading-rule call never returns
\* does not stall the cycle: whenever a gather is awaited with the call of
\* Hung pending, the cycle goes on to the snapshot recomputation (and from
\* there to its sleep and the next cycle).
HungPending ==
  /\ loopPc \in {"balances", "rules"}
  /\ Hung \in upd["loop"].targets \ upd["loop"].done
C29_HungCallDoesNotStall == HungPending ~> (loopPc \in {"state", "sleep"})

\* C30: while the update loop is suspended in a connector call (a gather of
\* balance or trading-rule refreshes, or a price lookup), the dump loop takes
\* its step as soon as it is due: the signal is set, or its wake-up time is
\* reached.
SyncSuspended == loopPc \in {"balances", "rules", "state"}
C30_DumpNotBlockedBySync ==
  (SyncSuspended /\ DumpDue) => ENABLED (DumpFirst \/ DumpNext)
\* the update loop is waiting for the price lookup of acct1's connector, and
\* the last line of the history was written after acct1 was deleted under
\* that lookup: the snapshot it carries has lost the account
C30_Witness ==
  /\ loopPc = "state" /\ upd["loop"].cur = "acct1"
  /\ dumpPc = "sleep"
  /\ history # <<>>
  /\ history[Len(history)].by = "loop"
  /\ "acct1" \notin DOMAIN history[Len(history)].state

\* C31: a listener keeps two buffers of capacity 100.  An ERROR log goes to
\* the error buffer only and any other log to the general buffer only;
\* neither buffer ever holds more than 100 entries, and each holds the most
\* recent logs of its class (at most 100) in arrival order.  In the stream of
\* SpecLogs the general logs carry the arrival numbers 1..g and the
\* errors g+1..g+e.
Min(x, y) == IF x < y THEN x ELSE y
Recent(level, first, n) ==
  [k \in 1..Min(n, maxlen) |->
     [level_name |-> level, mapping |-> TRUE,
      timestamp |-> first + n - Min(n, maxlen) + k]]
C31_BuffersHoldLatest ==
  \A bot \in DOMAIN active_bots :
    LET l == active_bots[bot].broker_listener
        g == Last(l.general_logs)
        e == IF l.error_logs = <<>> THEN 0 ELSE Last(l.error_logs) - g
    IN /\ Len(l.error_logs) <= maxlen /\ Len(l.general_logs) <= maxlen
       /\ l.general_logs = Recent("INFO", 0, g)
       /\ l.error_logs = Recent("ERROR", g, e)
\* both buffers are full and both have evicted their two oldest entries
C31_Witness ==
  \E bot \in DOMAIN active_bots :
    LET l == active_bots[bot].broker_listener IN
      /\ Len(l.general_logs) = maxlen /\ l.general_logs[1].timestamp = 3
      /\ Len(l.error_logs) = maxlen
      /\ l.error_logs[1].timestamp = Last(l.general_logs) + 3

\* C32: a performance message replaces the cached record of every
\* sub-strategy it names with the message's record as a whole, and leaves
\* the records of the sub-strategies it does not name, and everything else
\* in the registry, unchanged.
C32_RecordsReplacedWhole ==
  [][\A bot \in WorkerNames, msg \in Messages :
       UpdateBotPerformance(bot, msg)
         => LET old == active_bots[bot].broker_listener.performance
                new == active_bots'[bot].broker_listener.performance
            IN /\ DOMAIN new = (DOMAIN old) \cup (DOMAIN msg)
               /\ \A c \in DOMAIN msg : new[c] = msg[c]
               /\ \A c \in (DOMAIN old) \ (DOMAIN msg) : new[c] = old[c]
               /\ active_bots' =
                    [active_bots EXCEPT ![bot].broker_listener.performance = new]]_vars
\* the listener of acct1's worker caches a record with both metrics for c1
\* and the empty record for c2, which no single-field merge produces from a
\* fuller record
C32_Witness ==
  /\ Registered(instance_name("acct1"))
  /\ LET p == active_bots[instance_name("acct1")].broker_listener.performance
     IN /\ DOMAIN p = Controllers
        /\ DOMAIN p["c1"] = MetricKeys
        /\ DOMAIN p["c2"] = {}

\* C33: when add_account fails part-way (a template file cannot be copied
\* from the master account), neither a directory nor a registry entry for
\* the name remains, so every directory list_accounts shows holds the
\* complete template set.
C33_FailedAddLeavesNothing ==
  [][\A call \in Callers :
       (AddAccount(call[1], call[2]) /\ ret'.out = "FileNotFoundError")
         => /\ ~path_exists(disk', call[2])
            /\ call[2] \notin DOMAIN accounts'[call[1]]
            /\ \A n \in list_folders(disk') : disk'[n].tmpl]_vars

\* C34: get_bot_wallet_address does not change the connector registry: for
\* every account the connector instances registered in accounts are the
\* same before and after the call, also when the call falls back to the
\* account-info file.
RegisteredConnectors(acc, n) == IF n \in DOMAIN acc THEN acc[n].conns ELSE EmptyMap
C34_WalletLookupKeepsConnectors ==
  [][\A call \in WalletCallers :
       GetBotWalletAddress(call[1], call[2])
         => \A i \in Insts, n \in Names :
              RegisteredConnectors(accounts'[i], n) = RegisteredConnectors(accounts[i], n)]_vars

\* C35: generate_bot_wallet for an account that is not in the registry fails
\* and changes nothing: no key file and no credentials directory is created
\* for the name, and no wallet is recorded.
C35_UnknownAccountNoWallet ==
  [][\A call \in Callers :
       (GenerateBotWallet(call[1], call[2]) /\ call[2] \notin DOMAIN accounts[call[1]])
         => /\ ret'.out = "ValueError"
            /\ disk' = disk /\ vault' = vault
            /\ accounts' = accounts]_vars

\* C36: for every worker created by create_hummingbot_instance the container
\* name, the instance_id written into its conf/conf_client.yml and the bot id
\* of the listener and command client that the reconciliation loop creates
\* for it are the same string, so the listener's performance topic is the
\* worker's.
C36_OneNamePerWorker ==
  [][/\ \A w \in Names, profile \in Names :
          (CreateHummingbotInstance(w, profile) /\ ret'.out = "ok")
            => /\ instance_name(w) \in containers'
               /\ instances'[w].conf.instance_id = instance_name(w)
     /\ \A w \in Names :
          LET bot == instance_name(w) IN
            /\ instances'[w].conf.instance_id \in {<<>>, bot}
            /\ bot \in DOMAIN active_bots'
                 => /\ active_bots'[bot].broker_client = bot
                    /\ active_bots'[bot].broker_listener.bot_id = bot
                    /\ performance_topic(active_bots'[bot].broker_listener.bot_id)
                         = performance_topic(bot)]_vars
\* the worker created for acct1 runs, its conf_client.yml carries its
\* instance id, and the loop registered a listener for it
C36_Witness ==
  /\ instance_name("acct1") \in containers
  /\ status[instance_name("acct1")] = "running"
  /\ instances["acct1"].conf.instance_id = instance_name("acct1")
  /\ Registered(instance_name("acct1"))
  /\ active_bots[instance_name("acct1")].broker_listener.bot_id = instance_name("acct1")

\* C37: the secret key is generated at most once.  An existing key file is
\* loaded and never rewritten, every service object constructed after the
\* first, in the same or a later process run, holds the key of the file, and
\* a private key that one object encrypted is decrypted by any other.
C37_OneSecretKey ==
  [][/\ secret_file # NoKey => secret_file' = secret_file
     /\ \A i \in Insts : secret_key'[i] \in {NoKey, secret_file'}
     /\ \A i \in Insts, w \in 1..MaxWallets :
          (Constructed(i) /\ GetBotWalletPrivateKey(i, "acct1", w)
             /\ w \in disk["acct1"].keys)
            => ret'.out = "ok" /\ ret'.val = private_key_of(w)]_vars
\* an object of a later process run than the one that generated the key and
\* the wallets read back the private key of the second wallet: no registry
\* of the running process holds that wallet
C37_Witness ==
  /\ ret.op = "get_bot_wallet_private_key" /\ ret.out = "ok"
  /\ ret.val = private_key_of(2)
  /\ \A i \in Insts :
       "acct1" \in DOMAIN accounts[i] => accounts[i]["acct1"].wallet # 2

\* ------------------------------------------------- the sleep of the dump loop
\* The sleep computation over its inputs: a process started at any half
\* minute of two hours with any dump interval of 1 to MaxInterval minutes;
\* the first synchronisation (every exchange answers, with ten units of
\* every token) sets the event and the dump loop computes its sleep, after
\* a written line or after a failed write.
InitSleep ==
  \E N \in 1..MaxInterval, t \in 0..LastInstant :
    /\ ServiceInitAt(ProvisionedDisk, N, t)
    /\ SecretInit(1) /\ FleetUp /\ BacktestIdle

NextSleep ==
  \/ StartLoops
  \/ LoopStartCycleWith(<<"master_account", "acct1">>, [n \in Names |-> Connectors])
  \/ LoopBalancesDoneWith(upd["loop"].targets,
                          [t \in upd["loop"].targets |-> FullReport])
  \/ LoopRulesDone
  \/ LoopResumeWith(TRUE)
  \/ DumpFirst
  \/ DumpFails

SpecSleep == InitSleep /\ [][NextSleep]_vars

\* C38: for every current time and every dump interval N of 1 to 60
\* minutes, the sleep computed by dump_account_state_loop is strictly
\* greater than zero and at most N minutes, and the wake-up time has zero
\* seconds and a minute value that is a multiple of N.
C38_SleepAligned ==
  [][(DumpFirst \/ DumpFails) =>
       LET sleep_duration == wakeAt' - now IN
         /\ sleep_duration > 0
         /\ sleep_duration <= 2 * interval
         /\ wakeAt' % 2 = 0
         /\ (Minute(wakeAt') % 60) % interval = 0]_vars

\* an interval of 7 minutes at 58 minutes 30 seconds: the loop sleeps a
\* minute and a half, to the full hour
C38_Witness ==
  /\ dumpPc = "sleep"
  /\ interval = 7 /\ now = 117 /\ wakeAt = 120

\* ------------------------------------------------- calls for unknown workers
\* Every call of the manager for both worker names while the reconciliation
\* loop registers the worker of acct1; the worker of the master account
\* never runs and is never registered.
NextCalls ==
  \/ UpdateActiveBots
  \/ \E bot \in WorkerNames : StartBot(bot)
  \/ \E bot \in WorkerNames : StopBot(bot)
  \/ \E bot \in WorkerNames : ImportStrategyForBot(bot)
  \/ \E bot \in WorkerNames : ConfigureBot(bot)
  \/ \E bot \in WorkerNames : GetBotStatus(bot)
  \/ \E s \in {"running", "exited"} : ContainerChanges(instance_name("acct1"), s)

SpecCalls == InitCommands /\ [][NextCalls]_vars

====
